---- MODULE Spec2Model ----
(***************************************************************************)
(* statsd_exporter: the ingest-to-registry pipeline.                       *)
(*                                                                         *)
(* Event workers (Exporter.Listener -> handleEvent) apply events to the    *)
(* four metric containers and refresh the label-values table; the sweeper  *)
(* (removeStaleMetricsLoop -> removeStaleMetrics) evicts expired series.   *)
(* Every action below is one step of that code between two points where    *)
(* another goroutine can interleave: a section under a mutex, one call     *)
(* into the Prometheus client library (whose operations are atomic), or    *)
(* one unsynchronised access to shared memory.                             *)
(***************************************************************************)
EXTENDS Integers, Sequences, FiniteSets, TLC

(***************************************************************************)
(* Bounds of the model.                                                    *)
(***************************************************************************)
MaxClock  == 2      \* the clock takes the values 0..MaxClock
MaxEvents == 2      \* handleEvent is called at most MaxEvents times
MaxGauges == 3      \* GaugeEvents that the single worker handles in a row
MaxBatches == 2     \* batches sent into the events channel
MaxPackets == 3     \* UDP packets read by all readers together
PacketHandlers == 3 \* the packetHandlers argument of StatsDUDPListener.Listen
CacheSize == 2      \* the size given to NewMetricMapperCache (lru.New)
MaxLen == 3         \* length of the strings given to escapeMetricName alone

Workers == {"w1", "w2"}     \* two of the 101 goroutines started by Listen

(***************************************************************************)
(* Strings are sequences of one-character strings.                         *)
(***************************************************************************)
Digits  == {"0", "1", "2", "3", "4", "5", "6", "7", "8", "9"}
Letters == {"a", "b", "c", "d", "e", "f", "g", "h", "i", "j", "k", "l", "m",
            "n", "o", "p", "q", "r", "s", "t", "u", "v", "w", "x", "y", "z",
            "A", "B", "C", "D", "E", "F", "G", "H", "I", "J", "K", "L", "M",
            "N", "O", "P", "Q", "R", "S", "T", "U", "V", "W", "X", "Y", "Z"}
LegalChars == Digits \cup Letters \cup {"_"}

N_foo == <<"f", "o", "o">>
N_bar == <<"b", "a", "r">>

(***************************************************************************)
(* Labels (prometheus.Labels): a function from label names to values.      *)
(***************************************************************************)
EmptyLabels == [k \in {} |-> "p"]
L_p == [k \in {"env"} |-> "p"]
L_q == [k \in {"env"} |-> "q"]

\* labelNames: the sorted list of the labels' names; a sorted list of
\* distinct strings is represented by the set of its elements.
labelNames(labels) == DOMAIN labels

L_qj == [k \in {"env", "job"} |-> IF k = "env" THEN "q" ELSE "j"]

\* A variant in which a label the event already has keeps its value.
MergeLabels_keep(eventLabels, extra) ==
    [k \in DOMAIN eventLabels \cup DOMAIN extra |->
        IF k \in DOMAIN eventLabels THEN eventLabels[k] ELSE extra[k]]

\* for label, value := range labels { prometheusLabels[label] = value }
MergeLabels(eventLabels, extra) ==
    [k \in DOMAIN eventLabels \cup DOMAIN extra |->
        IF k \in DOMAIN extra THEN extra[k] ELSE eventLabels[k]]

(***************************************************************************)
(* escapeMetricName.  Indexing metricName[0] of an empty string panics.    *)
(***************************************************************************)
escapeMetricNamePanics(metricName) == Len(metricName) = 0

\* A variant that prepends the underscore to every name that does not start
\* with a letter.
escapeMetricName_nonLetter(metricName) ==
    LET prefixed == IF metricName[1] \notin Letters
                    THEN <<"_">> \o metricName
                    ELSE metricName
    IN  [i \in 1..Len(prefixed) |->
            IF prefixed[i] \in LegalChars THEN prefixed[i] ELSE "_"]

escapeMetricName(metricName) ==
    LET prefixed == IF metricName[1] \in Digits
                    THEN <<"_">> \o metricName
                    ELSE metricName
    IN  [i \in 1..Len(prefixed) |->
            IF prefixed[i] \in LegalChars THEN prefixed[i] ELSE "_"]

(***************************************************************************)
(* Events and mapper results.                                              *)
(***************************************************************************)
Families == {"counter", "gauge", "summary", "histogram"}

CounterEvent(name, value, labels) ==
    [kind |-> "counter", metricName |-> name, value |-> value,
     relative |-> FALSE, labels |-> labels]
GaugeEvent(name, value, relative, labels) ==
    [kind |-> "gauge", metricName |-> name, value |-> value,
     relative |-> relative, labels |-> labels]
TimerEvent(name, value, labels) ==
    [kind |-> "timer", metricName |-> name, value |-> value,
     relative |-> FALSE, labels |-> labels]

\* mapper.MetricMapping{}: the zero mapping.
EmptyMapping ==
    [Name |-> <<>>, Action |-> "", Ttl |-> 0, TimerType |-> ""]

\* b.mapper.Defaults, as the configuration file sets them; a reload of the
\* configuration (main.go, watchConfig) changes them while the exporter runs.
Defaults == [Ttl |-> 1, TimerType |-> ""]
HistogramDefaults == [Ttl |-> 1, TimerType |-> "histogram"]

\* What GetMapping returns: (mapping, labels, present); isNil: mapping == nil;
\* defaults: b.mapper.Defaults as handleEvent reads them in that call.
NoMapping ==
    [isNil |-> TRUE, mapping |-> EmptyMapping, labels |-> EmptyLabels,
     present |-> FALSE, defaults |-> Defaults]
Mapped(name, action, ttl, timerType, labels) ==
    [isNil |-> FALSE,
     mapping |-> [Name |-> name, Action |-> action, Ttl |-> ttl,
                  TimerType |-> timerType],
     labels |-> labels, present |-> TRUE, defaults |-> Defaults]
WithDefaults(res, defaults) == [res EXCEPT !.defaults = defaults]

(***************************************************************************)
(* State.                                                                  *)
(***************************************************************************)
VARIABLES
    clock,          \* clock.Now(), in ticks of the sweep ticker
    tickPending,    \* a tick waits in removeStaleMetricsTicker.C
    registered,     \* prometheus default registry: name -> [family, labelNames]
    Elements,       \* [family -> (metricName -> vector)], the four containers
    labelValues,    \* b.labelValues: metricName -> reference to an inner map
    maps,           \* the inner maps ever made: hash -> LabelValues record
    hash,           \* the bytes written to the shared fnv hasher since Reset
    strBuf,         \* the shared bytes.Buffer
    intBuf,         \* the shared 8-byte buffer
    eventStats, conflictingEventStats, eventsUnmapped,   \* self-metrics
    nextId,         \* identities handed to children and records
    pc, loc,        \* per worker: position in handleEvent and its locals
    spc, sweep,     \* the sweeper: position in removeStaleMetrics, its locals
    \* history variables (written, never read by the program's actions)
    started,        \* number of handleEvent calls so far
    registerCalls,  \* <<family, name>> -> calls of prometheus.Register
    sent,           \* <<name, labels>> -> sum of accepted CounterEvent values
    nameUse,        \* name -> {[family, labelNames]} of the events begun
    gaugeLog,       \* <<name, labels>> -> the GaugeEvents begun, in order
    evicted,        \* {<<name, labels>>} series the sweeper has deleted
    raced,          \* {<<name, labels>>} observed while being evicted
    due,            \* the records in the table when the current sweep began
    refreshed,      \* the records written by a worker during the current sweep
    swept           \* {<<name, labels>>} Deleted by the current sweep

VARIABLES
    line,           \* the line handed to lineToEvents
    ppc,            \* position in lineToEvents
    metric,         \* lineToEvents' local metric
    samples,        \* the samples of the line not yet looked at
    events,         \* lineToEvents' local events, returned at the end
    sampleErrors,   \* statsd_exporter_sample_errors_total, by reason
    samplesReceived, tagsReceived, tagErrors,    \* self-metrics of the parser
    \* history variable
    sampleLog       \* per sample looked at: events made, error counts added

VARIABLES
    queue,          \* the batches waiting in the events channel e
    closed,         \* close(e) has been called
    lpc,            \* per worker: position in Listener
    batch,          \* per worker: the events of its batch not yet handled
    tickerStopped,  \* removeStaleMetricsTicker.Stop() has been called
    tickerClosed,   \* removeStaleMetricsTicker.C is closed
    \* history variables
    produced,       \* the batches sent into e, in order
    received,       \* index in produced -> number of times it was received
    atClose         \* the number of batches in e when it was closed

VARIABLES
    escIn,          \* the string given to escapeMetricName
    escOut          \* what escapeMetricName returned, applied again to that

VARIABLES
    upc,            \* per UDP reader: position in StatsDUDPListener.Listener
    upkt,           \* per UDP reader: the packet it handles itself, 0 for none
    sem,            \* per UDP reader: the number of elements in its sem
    async,          \* the goroutines started for packets: [reader, id, at]
    crashed,        \* a goroutine has panicked: the process is gone
    \* history variables
    packets,        \* the packets read, in order; a packet's id is its index
    handled,        \* id -> number of handlePacket calls for the packet
    batchesOf       \* id -> the batches sent into e for the packet

VARIABLES
    impl,           \* which MetricMapperCache is compiled in
    cache,          \* the cache's content: key -> what was stored
    order,          \* lru: the keys from least to most recently used
    got,            \* what the last Get returned
    \* history variables
    stored,         \* key -> the result last added, while it is not evicted
    asked           \* the key of the last Get and what stored held for it

progVars == <<clock, tickPending, registered, Elements, labelValues, maps,
              hash, strBuf, intBuf, eventStats, conflictingEventStats,
              eventsUnmapped, nextId, pc, loc, spc, sweep>>
eventHist == <<started, sent, nameUse, gaugeLog>>
sweepHist == <<evicted, raced, due, refreshed, swept>>
histVars == <<eventHist, registerCalls, sweepHist>>
parseVars == <<line, ppc, metric, samples, events, sampleErrors,
               samplesReceived, tagsReceived, tagErrors, sampleLog>>
chanVars == <<queue, closed, lpc, batch, tickerStopped, tickerClosed,
              produced, received, atClose>>
escVars == <<escIn, escOut>>
udpVars == <<upc, upkt, sem, async, crashed, packets, handled, batchesOf>>
cacheVars == <<impl, cache, order, got, stored, asked>>
libVars == <<escVars, udpVars, cacheVars>>
vars == <<progVars, histVars, parseVars, chanVars, libVars>>

(***************************************************************************)
(* Finite maps with a growing domain.                                      *)
(***************************************************************************)
EmptyMap == [k \in {} |-> 0]
Put(f, k, v) == [x \in DOMAIN f \cup {k} |-> IF x = k THEN v ELSE f[x]]
Remove(f, k) == [x \in DOMAIN f \ {k} |-> f[x]]
Bump(f, k, d) == Put(f, k, IF k \in DOMAIN f THEN f[k] + d ELSE d)
CountOf(f, k) == IF k \in DOMAIN f THEN f[k] ELSE 0

(***************************************************************************)
(* The time.Time zero value of a LabelValues made by saveLabelValues       *)
(* before lastRegisteredAt is assigned: earlier than any clock reading by  *)
(* more than any ttl.                                                      *)
(***************************************************************************)
Ttls == {0, 1}
ZeroTime == 0 - 2

(***************************************************************************)
(* Inputs of handleEvent: an event and what the mapper returns for it.     *)
(***************************************************************************)
Input(ev, res) == [ev |-> ev, res |-> res]

\* The workers racing with each other: one name, with and without labels,
\* as a counter (also negative) and as a gauge; ttl 1 from the defaults.
InputsWorkers ==
       { Input(CounterEvent(N_foo, 1, l), NoMapping) : l \in {EmptyLabels, L_p, L_q} }
  \cup { Input(CounterEvent(N_foo, 0 - 1, L_p), NoMapping),
         Input(GaugeEvent(N_foo, 5, FALSE, L_p), NoMapping) }

\* A worker and the sweeper: two series of one counter, with ttl 1 (the
\* default) and with ttl 0 (from a mapping).
InputsSweep ==
       { Input(CounterEvent(N_foo, 1, l), NoMapping) : l \in {L_p, L_q} }
  \cup { Input(CounterEvent(N_foo, 1, L_p), Mapped(N_foo, "", 0, "", EmptyLabels)) }

\* Two workers and the four families: timers of one name that the mapping or,
\* when its timer type is unset, the defaults route to a histogram or to a
\* summary (the defaults change with a reload), a counter and a gauge.
InputsFamilies ==
    { Input(TimerEvent(N_foo, 2500, EmptyLabels),
            Mapped(N_foo, "", 1, "histogram", EmptyLabels)),
      Input(TimerEvent(N_foo, 500, EmptyLabels),
            WithDefaults(Mapped(N_foo, "", 1, "summary", EmptyLabels),
                         HistogramDefaults)),
      Input(TimerEvent(N_foo, 1500, EmptyLabels), NoMapping),
      Input(TimerEvent(N_foo, 250, EmptyLabels),
            WithDefaults(NoMapping, HistogramDefaults)),
      Input(TimerEvent(N_foo, 750, EmptyLabels),
            WithDefaults(Mapped(N_foo, "", 1, "", EmptyLabels),
                         HistogramDefaults)),
      Input(CounterEvent(N_foo, 1, EmptyLabels), NoMapping),
      Input(GaugeEvent(N_foo, 5, FALSE, EmptyLabels), NoMapping) }

\* One worker on the gauge foo: absolute and relative values (a statsd value
\* with a leading + or - is relative) on two series.
InputsGauges ==
    { Input(GaugeEvent(N_foo, 5, FALSE, L_p), NoMapping),
      Input(GaugeEvent(N_foo, 2, FALSE, L_p), NoMapping),
      Input(GaugeEvent(N_foo, 3, TRUE, L_p), NoMapping),
      Input(GaugeEvent(N_foo, 0 - 1, TRUE, L_p), NoMapping),
      Input(GaugeEvent(N_foo, 7, FALSE, L_q), NoMapping) }

\* A worker and the sweeper on two names: a series of one name expires while
\* the other name is observed for the first time.
InputsLocks ==
    { Input(CounterEvent(n, 1, L_p), NoMapping) : n \in {N_foo, N_bar} }

\* One worker and the mapper's answers: no match (a name the sanitizer
\* leaves alone and one it changes), a match that renames the metric and
\* adds labels, one of them on a key the event has, and matches whose
\* action is drop.
InputsMapping ==
    { Input(CounterEvent(N_foo, 1, L_p), NoMapping),
      Input(CounterEvent(<<"a", ".", "b">>, 1, L_p), NoMapping),
      Input(CounterEvent(N_foo, 1, L_p), Mapped(<<"9", "b">>, "", 1, "", L_qj)),
      Input(CounterEvent(N_foo, 1, L_p), Mapped(N_bar, "drop", 1, "", L_q)),
      Input(CounterEvent(N_foo, 0 - 1, L_p),
            Mapped(N_bar, "drop", 1, "", EmptyLabels)) }

\* One worker and every way handleEvent ends: a counter, a gauge and a
\* timer that are recorded, a negative counter, the same name with other
\* label names or in another family (a conflict), and a mapping that drops.
InputsStats ==
    { Input(CounterEvent(N_foo, 1, L_p), NoMapping),
      Input(CounterEvent(N_foo, 1, EmptyLabels), NoMapping),
      Input(CounterEvent(N_foo, 0 - 1, L_p), NoMapping),
      Input(GaugeEvent(N_foo, 5, FALSE, L_p), NoMapping),
      Input(TimerEvent(N_bar, 500, EmptyLabels), NoMapping),
      Input(CounterEvent(N_foo, 1, L_p), Mapped(N_bar, "drop", 1, "", L_q)) }

(***************************************************************************)
(* handleEvent, lines 383-421: the mapping, the name, the labels, and the  *)
(* family the event is routed to.                                          *)
(***************************************************************************)
EffectiveMapping(res) ==
    IF res.isNil
    THEN IF res.defaults.Ttl # 0
         THEN [EmptyMapping EXCEPT !.Ttl = res.defaults.Ttl]
         ELSE EmptyMapping
    ELSE res.mapping

EventMetricName(ev, res) ==
    IF res.present THEN escapeMetricName(EffectiveMapping(res).Name)
                   ELSE escapeMetricName(ev.metricName)

PrometheusLabels(ev, res) ==
    IF res.present THEN MergeLabels(ev.labels, res.labels) ELSE ev.labels

TimerType(res) ==
    LET t == EffectiveMapping(res).TimerType
    IN  IF t = "" THEN res.defaults.TimerType ELSE t

EventFamily(ev, res) ==
    CASE ev.kind = "counter" -> "counter"
      [] ev.kind = "gauge"   -> "gauge"
      [] ev.kind = "timer"   ->
            IF TimerType(res) = "histogram" THEN "histogram" ELSE "summary"

\* A variant that lets the value -1 through (the comparison off by one).
IsNegativeCounter_lax(ev) == ev.kind = "counter" /\ ev.value < 0 - 1

IsNegativeCounter(ev) == ev.kind = "counter" /\ ev.value < 0

\* A variant in which no action counts as a drop.
IsDrop_never(mapping) == FALSE

\* mapping.Action == mapper.ActionTypeDrop
IsDrop(mapping) == mapping.Action = "drop"

NoEvent == CounterEvent(<<>>, 0, EmptyLabels)
IdleLoc ==
    [ev |-> NoEvent, ttl |-> 0, metricName |-> <<>>, labels |-> EmptyLabels,
     family |-> "counter", handle |-> 0, metric |-> 0, hash |-> <<>>,
     rec |-> 0, now |-> 0, outcome |-> "", racing |-> FALSE, res |-> NoMapping]

\* The history of the events begun.
NoteEvent(w, ev, res) ==
    LET name == EventMetricName(ev, res)
        labels == PrometheusLabels(ev, res)
        use == [family |-> EventFamily(ev, res), labelNames |-> labelNames(labels)]
    IN  /\ started' = started + 1
        /\ nameUse' = Put(nameUse, name,
                          IF name \in DOMAIN nameUse THEN nameUse[name] \cup {use}
                                                     ELSE {use})
        /\ sent' = IF ev.kind = "counter" /\ ev.value >= 0
                   THEN Bump(sent, <<name, labels>>, ev.value)
                   ELSE sent
        /\ gaugeLog' = IF ev.kind = "gauge"
                       THEN Put(gaugeLog, <<name, labels>>,
                                Append(IF <<name, labels>> \in DOMAIN gaugeLog
                                       THEN gaugeLog[<<name, labels>>]
                                       ELSE <<>>,
                                       ev))
                       ELSE gaugeLog

HandleEventBegin(w, ev, res) ==
    LET mapping == EffectiveMapping(res)
        name == EventMetricName(ev, res)
        labels == PrometheusLabels(ev, res)
        l == [IdleLoc EXCEPT !.ev = ev, !.ttl = mapping.Ttl, !.res = res,
                             !.metricName = name, !.labels = labels,
                             !.family = EventFamily(ev, res)]
    IN  /\ IF IsDrop(mapping)
           THEN /\ UNCHANGED <<eventsUnmapped, eventStats>>
                /\ pc' = [pc EXCEPT ![w] = "ret"]
                /\ loc' = [loc EXCEPT ![w] = [l EXCEPT !.outcome = "drop"]]
           ELSE /\ eventsUnmapped' = IF res.present THEN eventsUnmapped
                                                    ELSE eventsUnmapped + 1
                /\ IF IsNegativeCounter(ev)
                   THEN /\ eventStats' =
                              Bump(eventStats, "illegal_negative_counter", 1)
                        /\ pc' = [pc EXCEPT ![w] = "ret"]
                        /\ loc' = [loc EXCEPT ![w] =
                                      [l EXCEPT !.outcome = "negative"]]
                   ELSE /\ eventStats' = eventStats
                        /\ pc' = [pc EXCEPT ![w] = "get"]
                        /\ loc' = [loc EXCEPT ![w] = l]
        /\ NoteEvent(w, ev, res)
        /\ UNCHANGED <<parseVars, libVars,
                       clock, tickPending, registered, Elements, labelValues,
                       maps, hash, strBuf, intBuf, conflictingEventStats,
                       nextId, spc, sweep, registerCalls, sweepHist>>

\* The single worker takes the next gauge event.
BeginGauge(w) ==
    /\ pc[w] = "idle"
    /\ started < MaxGauges
    /\ \E in \in InputsGauges : HandleEventBegin(w, in.ev, in.res)
    /\ UNCHANGED chanVars

Begin(w, inputs) ==
    /\ pc[w] = "idle"
    /\ started < MaxEvents
    /\ \E in \in inputs : HandleEventBegin(w, in.ev, in.res)
    /\ UNCHANGED chanVars

(***************************************************************************)
(* float64 values are the rationals they stand for, in lowest terms with a *)
(* positive denominator: the values of this model are exact in float64.    *)
(***************************************************************************)
Abs(n) == IF n < 0 THEN 0 - n ELSE n

RECURSIVE GCD(_, _)
GCD(a, b) == IF b = 0 THEN a ELSE GCD(b, a % b)

Rat(n, d) ==
    LET g == GCD(Abs(n), d)
    IN  [num |-> IF n < 0 THEN 0 - (Abs(n) \div g) ELSE n \div g, den |-> d \div g]

One == Rat(1, 1)

\* a / b for b # 0
RatDiv(a, b) ==
    IF b.num < 0 THEN Rat((0 - a.num) * b.den, a.den * (0 - b.num))
                 ELSE Rat(a.num * b.den, a.den * b.num)

(***************************************************************************)
(* float64 arithmetic where rounding matters: 1 / samplingFactor, line     *)
(* 707.  A positive float64 is a significand of Significand bits, the      *)
(* first of them 1, and a binary exponent: its value is the significand    *)
(* read as a binary numeral, times 2^exp.  Bits are sequences of 0 and 1,  *)
(* most significant first.  Results are rounded to nearest, ties to even.  *)
(***************************************************************************)
Significand == 53

RECURSIVE BitsOf(_)
BitsOf(n) == IF n = 0 THEN <<>> ELSE Append(BitsOf(n \div 2), n % 2)

RECURSIVE BitsToInt(_)
BitsToInt(bits) ==
    IF bits = <<>> THEN 0
    ELSE 2 * BitsToInt(SubSeq(bits, 1, Len(bits) - 1)) + bits[Len(bits)]

Zeros(n) == [i \in 1..n |-> 0]

\* bits as a numeral of Significand + 1 bits
Pad(bits) == Zeros(Significand + 1 - Len(bits)) \o bits

\* a >= b for numerals of one length
BitsGE(a, b) ==
    \/ a = b
    \/ \E i \in 1..Len(a) :
          /\ a[i] > b[i]
          /\ \A j \in 1..(i - 1) : a[j] = b[j]

\* a - b for a >= b, numerals of one length: bit i borrows when the bits
\* after it are less in a than in b.
BitsSub(a, b) ==
    [i \in 1..Len(a) |->
        (a[i] - b[i]
           - (IF \E k \in (i + 1)..Len(a) :
                    /\ a[k] < b[k]
                    /\ \A j \in (i + 1)..(k - 1) : a[j] = b[j]
              THEN 1 ELSE 0)
           + 2) % 2]

\* bits + 1; a carry out of the first bit makes the numeral one bit longer
RECURSIVE BitsInc(_)
BitsInc(bits) ==
    IF bits = <<>> THEN <<1>>
    ELSE IF bits[Len(bits)] = 0
    THEN SubSeq(bits, 1, Len(bits) - 1) \o <<1>>
    ELSE BitsInc(SubSeq(bits, 1, Len(bits) - 1)) \o <<0>>

\* Rounding of a quotient whose first Significand + 1 bits are bits, which
\* has further bits set iff sticky, and whose first bit has weight
\* 2^(top - 1): ties go to the even significand.
Round(bits, sticky, top) ==
    LET kept == SubSeq(bits, 1, Significand)
        up == bits[Significand + 1] = 1 /\ (sticky \/ kept[Significand] = 1)
        inc == BitsInc(kept)
    IN  IF ~up THEN [bits |-> kept, exp |-> top - Significand]
        ELSE IF Len(inc) > Significand
        THEN [bits |-> SubSeq(inc, 1, Significand),
              exp |-> top - Significand + 1]
        ELSE [bits |-> inc, exp |-> top - Significand]

\* One step of the long division of st.rem by d (numerals of
\* Significand + 1 bits, st.rem < d), doubled being 2 * st.rem: the next
\* bit of the quotient goes to st.bits, zeros before its first 1 lower the
\* weight st.top of the first bit instead.  Nothing changes once
\* Significand + 1 bits are there.
DivStep(st, doubled, d) ==
    IF Len(st.bits) = Significand + 1 THEN st
    ELSE IF BitsGE(doubled, d)
    THEN [rem |-> BitsSub(doubled, d), bits |-> Append(st.bits, 1),
          top |-> st.top]
    ELSE IF st.bits = <<>>
    THEN [rem |-> doubled, bits |-> <<>>, top |-> st.top - 1]
    ELSE [rem |-> doubled, bits |-> Append(st.bits, 0), top |-> st.top]

\* n steps of the division, or as many as complete the quotient
RECURSIVE DivSteps(_, _, _)
DivSteps(st, d, n) ==
    IF n = 0 THEN st
    ELSE IF n = 1 THEN DivStep(st, Tail(st.rem) \o <<0>>, d)
    ELSE LET half == DivSteps(st, d, n \div 2)
         IN  IF Len(half.bits) = Significand + 1
             THEN half
             ELSE DivSteps(half, d, n - n \div 2)

Rounded(st) == Round(st.bits, st.rem # Zeros(Significand + 1), st.top)

\* The quotient in float64: at most Significand zeros come before the first
\* 1 for the divisions made here.
Quotient(rem, d, bits, top) ==
    Rounded(DivSteps([rem |-> rem, bits |-> bits, top |-> top], d,
                     2 * Significand + 1))

\* The float64 nearest to n / d, for integers 0 < n, 0 < d < 2^30: what
\* strconv.ParseFloat returns for the decimal numeral n / d.
Float64(n, d) ==
    Quotient(Pad(BitsOf(n % d)), Pad(BitsOf(d)), BitsOf(n \div d),
             Len(BitsOf(n \div d)))

\* 1 / x in float64: the first division step is 2 / x's significand, of
\* weight 2^(-1 - x.exp).  (x's significand is at least 2^52, so the
\* remainder 1 is below it.)
Reciprocal(x) ==
    Quotient(Pad(<<1>>), Pad(x.bits), <<>>, 0 - x.exp)

\* int(y) for a float64 y > 0 below 2^30: the bits above the binary point.
Truncate(y) ==
    IF y.exp >= 0 THEN BitsToInt(y.bits \o Zeros(y.exp))
    ELSE IF Significand + y.exp <= 0 THEN 0
    ELSE BitsToInt(SubSeq(y.bits, 1, Significand + y.exp))

\* int(1 / f) for f # 0, f the decimal numeral that was parsed: the
\* numeral is rounded to float64, the division is rounded to float64, and
\* the conversion truncates towards zero.
IntOfInverse(f) ==
    IF f.num < 0 THEN 0 - Truncate(Reciprocal(Float64(0 - f.num, f.den)))
                 ELSE Truncate(Reciprocal(Float64(f.num, f.den)))

RatAdd(a, b) == Rat(a.num * b.den + b.num * a.den, a.den * b.den)

(***************************************************************************)
(* The Prometheus client library, as the containers use it.                *)
(***************************************************************************)
\* A variant that refuses nothing.
RegisterFails_never(name) == FALSE

\* prometheus.Register(vec): an error when a collector of that name is
\* registered already (AlreadyRegisteredError, or the inconsistent-descriptor
\* error when label names or help differ).
RegisterFails(name) == name \in DOMAIN registered

\* prometheus.NewCounterVec(opts, labelNames(labels)) and its siblings.
NewVec(labels) == [labelNames |-> labelNames(labels), children |-> EmptyMap]

\* A variant that accepts labels the vector does not have.
GetMetricWithFails_lax(vec, labels) == ~(vec.labelNames \subseteq labelNames(labels))

\* vec.GetMetricWith(labels): an error unless the labels' names are the
\* vector's label names.
GetMetricWithFails(vec, labels) == labelNames(labels) # vec.labelNames

\* event.Value() / 1000: prometheus presumes seconds, statsd milliseconds.
Seconds(value) == RatDiv(value, Rat(1000, 1))

\* A variant that observes the milliseconds as they are.
ApplyValue_ms(child, ev) ==
    CASE ev.kind = "counter" -> [child EXCEPT !.val = @ + ev.value]
      [] ev.kind = "gauge"   ->
            IF ev.relative THEN [child EXCEPT !.val = @ + ev.value]
                           ELSE [child EXCEPT !.val = ev.value]
      [] ev.kind = "timer"   ->
            [child EXCEPT !.sum = RatAdd(@, Rat(ev.value, 1)), !.count = @ + 1]

\* A variant that adds every gauge value, absolute or not.
ApplyValue_add(child, ev) ==
    CASE ev.kind = "timer" ->
            [child EXCEPT !.sum = RatAdd(@, Seconds(Rat(ev.value, 1))),
                          !.count = @ + 1]
      [] OTHER -> [child EXCEPT !.val = @ + ev.value]

\* Add, Set and Observe on a child; a child of a summary or histogram keeps
\* the number and the sum of its observations.
ApplyValue(child, ev) ==
    CASE ev.kind = "counter" -> [child EXCEPT !.val = @ + ev.value]
      [] ev.kind = "gauge"   ->
            IF ev.relative THEN [child EXCEPT !.val = @ + ev.value]
                           ELSE [child EXCEPT !.val = ev.value]
      [] ev.kind = "timer"   ->
            [child EXCEPT !.sum = RatAdd(@, Seconds(Rat(ev.value, 1))),
                          !.count = @ + 1]

(***************************************************************************)
(* CounterContainer.Get and its three siblings, lines 99-118, 145-164,     *)
(* 193-222, 251-275: the same code for each family.                        *)
(***************************************************************************)
\* A variant that counts a conflict twice.
Conflict_twice(w) ==
    /\ conflictingEventStats' = Bump(conflictingEventStats, loc[w].ev.kind, 2)
    /\ pc' = [pc EXCEPT ![w] = "ret"]
    /\ loc' = [loc EXCEPT ![w].outcome = "conflict"]

\* log.Debugf(regErrF, ...); conflictingEventStats.WithLabelValues(kind).Inc()
Conflict(w) ==
    /\ conflictingEventStats' = Bump(conflictingEventStats, loc[w].ev.kind, 1)
    /\ pc' = [pc EXCEPT ![w] = "ret"]
    /\ loc' = [loc EXCEPT ![w].outcome = "conflict"]

\* c.Mutex.Lock(); counter, ok := c.Elements[metricName]; c.Mutex.Unlock()
GetLookup(w) ==
    /\ pc[w] = "get"
    /\ pc' = [pc EXCEPT ![w] =
                IF loc[w].metricName \in DOMAIN Elements[loc[w].family]
                THEN "getMetric" ELSE "register"]
    /\ UNCHANGED <<parseVars, libVars, chanVars,
                   clock, tickPending, registered, Elements, labelValues, maps,
                   hash, strBuf, intBuf, eventStats, conflictingEventStats,
                   eventsUnmapped, nextId, loc, spc, sweep, histVars>>

\* if !ok { vec := New...Vec(...); if err := prometheus.Register(vec) ... }
GetRegister(w) ==
    /\ pc[w] = "register"
    /\ registerCalls' = Bump(registerCalls, <<loc[w].family, loc[w].metricName>>, 1)
    /\ IF RegisterFails(loc[w].metricName)
       THEN /\ Conflict(w)
            /\ UNCHANGED registered
       ELSE /\ registered' = Put(registered, loc[w].metricName,
                                 [family |-> loc[w].family,
                                  labelNames |-> labelNames(loc[w].labels)])
            /\ pc' = [pc EXCEPT ![w] = "insert"]
            /\ UNCHANGED <<loc, conflictingEventStats>>
    /\ UNCHANGED <<parseVars, libVars, chanVars,
                   clock, tickPending, Elements, labelValues, maps, hash,
                   strBuf, intBuf, eventStats, eventsUnmapped, nextId, spc,
                   sweep, eventHist, sweepHist>>

\* c.Mutex.Lock(); c.Elements[metricName] = counter; c.Mutex.Unlock()
GetInsert(w) ==
    /\ pc[w] = "insert"
    /\ Elements' = [Elements EXCEPT ![loc[w].family] =
                        Put(@, loc[w].metricName, NewVec(loc[w].labels))]
    /\ pc' = [pc EXCEPT ![w] = "getMetric"]
    /\ UNCHANGED <<parseVars, libVars, chanVars,
                   clock, tickPending, registered, labelValues, maps, hash,
                   strBuf, intBuf, eventStats, conflictingEventStats,
                   eventsUnmapped, nextId, loc, spc, sweep, histVars>>

\* counter.CounterVec.GetMetricWith(labels): the child of these label values,
\* made when there is none.
GetMetric(w) ==
    /\ pc[w] = "getMetric"
    /\ LET f == loc[w].family
           n == loc[w].metricName
           vec == Elements[f][n]
       IN  IF GetMetricWithFails(vec, loc[w].labels)
           THEN /\ Conflict(w)
                /\ UNCHANGED <<Elements, nextId>>
           ELSE /\ IF loc[w].labels \in DOMAIN vec.children
                   THEN /\ loc' = [loc EXCEPT ![w].handle =
                                       vec.children[loc[w].labels].id]
                        /\ UNCHANGED <<Elements, nextId>>
                   ELSE /\ Elements' = [Elements EXCEPT ![f][n].children =
                               Put(@, loc[w].labels,
                                   [id |-> nextId, val |-> 0, count |-> 0,
                                    sum |-> Rat(0, 1)])]
                        /\ loc' = [loc EXCEPT ![w].handle = nextId]
                        /\ nextId' = nextId + 1
                /\ pc' = [pc EXCEPT ![w] = "apply"]
                /\ UNCHANGED conflictingEventStats
    /\ UNCHANGED <<parseVars, libVars, chanVars,
                   clock, tickPending, registered, labelValues, maps, hash,
                   strBuf, intBuf, eventStats, eventsUnmapped, spc, sweep,
                   histVars>>

(***************************************************************************)
(* handleEvent, lines 429, 446-448, 475, 491: Add, Set or Observe on the   *)
(* handle Get returned.  A handle whose child the sweeper has deleted from *)
(* the vector meanwhile refers to a metric no scrape will see.             *)
(***************************************************************************)
\* The sweeper has judged this series expired and has not yet erased it.
BeingEvicted(name, labels) ==
    /\ spc \in {"deleteSeries", "deleteRecord"}
    /\ sweep.name = name
    /\ sweep.labels = labels

Apply(w) ==
    /\ pc[w] = "apply"
    /\ LET f == loc[w].family
           n == loc[w].metricName
           l == loc[w].labels
           children == Elements[f][n].children
       IN  Elements' =
             IF l \in DOMAIN children /\ children[l].id = loc[w].handle
             THEN [Elements EXCEPT ![f][n].children[l] = ApplyValue(@, loc[w].ev)]
             ELSE Elements
    /\ pc' = [pc EXCEPT ![w] = "save"]
    /\ loc' = [loc EXCEPT ![w].racing =
                   BeingEvicted(loc[w].metricName, loc[w].labels)]
    /\ UNCHANGED <<parseVars, libVars, chanVars,
                   clock, tickPending, registered, labelValues, maps, hash,
                   strBuf, intBuf, eventStats, conflictingEventStats,
                   eventsUnmapped, nextId, spc, sweep, histVars>>

(***************************************************************************)
(* hashNameAndLabels, lines 69-77, on the process-wide hasher and buffers. *)
(* The hash of a byte string is modelled by the byte string itself (what   *)
(* was written since the last Reset), a token for each name and for each   *)
(* label signature: no two byte strings collide.                           *)
(***************************************************************************)
NameToken(name) == [tag |-> "name", name |-> name, sig |-> EmptyLabels]
\* model.LabelsToSignature(labels), written big-endian into intBuf
SigToken(labels) == [tag |-> "sig", name |-> <<>>, sig |-> labels]
\* intBuf = make([]byte, 8)
ZeroToken == [tag |-> "zero", name |-> <<>>, sig |-> EmptyLabels]

\* The value hashNameAndLabels returns when nothing interleaves.
HashOf(name, labels) == <<NameToken(name), SigToken(labels)>>

\* hash.Reset(); strBuf.Reset()
HashReset(w) ==
    /\ pc[w] = "hashReset"
    /\ hash' = <<>>
    /\ strBuf' = <<>>
    /\ pc' = [pc EXCEPT ![w] = "hashName"]
    /\ UNCHANGED <<parseVars, libVars, chanVars,
                   clock, tickPending, registered, Elements, labelValues, maps,
                   intBuf, eventStats, conflictingEventStats, eventsUnmapped,
                   nextId, loc, spc, sweep, histVars>>

\* strBuf.WriteString(name); hash.Write(strBuf.Bytes())
HashName(w) ==
    /\ pc[w] = "hashName"
    /\ strBuf' = Append(strBuf, NameToken(loc[w].metricName))
    /\ hash' = hash \o strBuf'
    /\ pc' = [pc EXCEPT ![w] = "hashLabels"]
    /\ UNCHANGED <<parseVars, libVars, chanVars,
                   clock, tickPending, registered, Elements, labelValues, maps,
                   intBuf, eventStats, conflictingEventStats, eventsUnmapped,
                   nextId, loc, spc, sweep, histVars>>

\* binary.BigEndian.PutUint64(intBuf, ...); hash.Write(intBuf)
HashLabels(w) ==
    /\ pc[w] = "hashLabels"
    /\ intBuf' = SigToken(loc[w].labels)
    /\ hash' = Append(hash, intBuf')
    /\ pc' = [pc EXCEPT ![w] = "hashSum"]
    /\ UNCHANGED <<parseVars, libVars, chanVars,
                   clock, tickPending, registered, Elements, labelValues, maps,
                   strBuf, eventStats, conflictingEventStats, eventsUnmapped,
                   nextId, loc, spc, sweep, histVars>>

\* return hash.Sum64()
HashSum(w) ==
    /\ pc[w] = "hashSum"
    /\ loc' = [loc EXCEPT ![w].hash = hash]
    /\ pc' = [pc EXCEPT ![w] = "saveRecord"]
    /\ UNCHANGED <<parseVars, libVars, chanVars,
                   clock, tickPending, registered, Elements, labelValues, maps,
                   hash, strBuf, intBuf, eventStats, conflictingEventStats,
                   eventsUnmapped, nextId, spc, sweep, histVars>>

(***************************************************************************)
(* saveLabelValues, lines 547-572.                                         *)
(***************************************************************************)
\* globalMutex.Lock(); metric, hasMetric := b.labelValues[metricName]; Unlock()
SaveLookup(w) ==
    /\ pc[w] = "save"
    /\ IF loc[w].metricName \in DOMAIN labelValues
       THEN /\ loc' = [loc EXCEPT ![w].metric = labelValues[loc[w].metricName]]
            /\ pc' = [pc EXCEPT ![w] = "hashReset"]
       ELSE /\ pc' = [pc EXCEPT ![w] = "saveNewMap"]
            /\ loc' = loc
    /\ UNCHANGED <<parseVars, libVars, chanVars,
                   clock, tickPending, registered, Elements, labelValues, maps,
                   hash, strBuf, intBuf, eventStats, conflictingEventStats,
                   eventsUnmapped, nextId, spc, sweep, histVars>>

\* metric = make(map[uint64]*LabelValues); b.labelValues[metricName] = metric
SaveNewMap(w) ==
    /\ pc[w] = "saveNewMap"
    /\ maps' = Append(maps, EmptyMap)
    /\ labelValues' = Put(labelValues, loc[w].metricName, Len(maps) + 1)
    /\ loc' = [loc EXCEPT ![w].metric = Len(maps) + 1]
    /\ pc' = [pc EXCEPT ![w] = "hashReset"]
    /\ UNCHANGED <<parseVars, libVars, chanVars,
                   clock, tickPending, registered, Elements, hash, strBuf,
                   intBuf, eventStats, conflictingEventStats, eventsUnmapped,
                   nextId, spc, sweep, histVars>>

\* globalMutex.Lock(); metricLabelValues, ok := metric[hash]; if !ok { ...
\* b.labelValues[metricName][hash] = metricLabelValues }; globalMutex.Unlock()
SaveRecord(w) ==
    /\ pc[w] = "saveRecord"
    /\ LET h == loc[w].hash
           cur == labelValues[loc[w].metricName]
       IN  IF h \in DOMAIN maps[loc[w].metric]
           THEN /\ loc' = [loc EXCEPT ![w].rec = maps[loc[w].metric][h].id]
                /\ UNCHANGED <<maps, nextId>>
           ELSE /\ maps' = [maps EXCEPT ![cur] =
                              Put(@, h, [id |-> nextId,
                                         lastRegisteredAt |-> ZeroTime,
                                         labels |-> loc[w].labels,
                                         ttl |-> loc[w].ttl])]
                /\ loc' = [loc EXCEPT ![w].rec = nextId]
                /\ nextId' = nextId + 1
    /\ pc' = [pc EXCEPT ![w] = "refreshTime"]
    /\ UNCHANGED <<parseVars, libVars, chanVars,
                   clock, tickPending, registered, Elements, labelValues, hash,
                   strBuf, intBuf, eventStats, conflictingEventStats,
                   eventsUnmapped, spc, sweep, histVars>>

\* A write through the pointer metricLabelValues: it reaches the record
\* wherever it is still held; a record erased from its map is garbage.
WriteRecord(ms, id, field, value) ==
    [i \in DOMAIN ms |->
        [h \in DOMAIN ms[i] |->
            IF ms[i][h].id = id
            THEN [ms[i][h] EXCEPT ![field] = value]
            ELSE ms[i][h]]]

\* now := clock.Now(); metricLabelValues.lastRegisteredAt = now
RefreshTime(w) ==
    /\ pc[w] = "refreshTime"
    /\ maps' = WriteRecord(maps, loc[w].rec, "lastRegisteredAt", clock)
    /\ loc' = [loc EXCEPT ![w].now = clock]
    /\ pc' = [pc EXCEPT ![w] = "refreshTtl"]
    /\ refreshed' = IF spc = "idle" THEN refreshed
                                    ELSE refreshed \cup {loc[w].rec}
    /\ UNCHANGED <<parseVars, libVars, chanVars,
                   clock, tickPending, registered, Elements, labelValues, hash,
                   strBuf, intBuf, eventStats, conflictingEventStats,
                   eventsUnmapped, nextId, spc, sweep, eventHist,
                   registerCalls, evicted, raced, due, swept>>

\* metricLabelValues.ttl = ttl, and back in handleEvent
\* eventStats.WithLabelValues(kind).Inc()
RefreshTtl(w) ==
    /\ pc[w] = "refreshTtl"
    /\ maps' = WriteRecord(maps, loc[w].rec, "ttl", loc[w].ttl)
    /\ eventStats' = Bump(eventStats, loc[w].ev.kind, 1)
    /\ pc' = [pc EXCEPT ![w] = "ret"]
    /\ loc' = [loc EXCEPT ![w].outcome = "ok"]
    /\ raced' = IF loc[w].racing /\ BeingEvicted(loc[w].metricName, loc[w].labels)
                THEN raced \cup {<<loc[w].metricName, loc[w].labels>>}
                ELSE raced
    /\ refreshed' = IF spc = "idle" THEN refreshed
                                    ELSE refreshed \cup {loc[w].rec}
    /\ UNCHANGED <<parseVars, libVars, chanVars,
                   clock, tickPending, registered, Elements, labelValues, hash,
                   strBuf, intBuf, conflictingEventStats, eventsUnmapped,
                   nextId, spc, sweep, eventHist, registerCalls, evicted, due,
                   swept>>

\* handleEvent returns to Listener's loop.
Return(w) ==
    /\ pc[w] = "ret"
    /\ pc' = [pc EXCEPT ![w] = "idle"]
    /\ loc' = [loc EXCEPT ![w] = IdleLoc]
    /\ UNCHANGED <<parseVars, libVars, chanVars,
                   clock, tickPending, registered, Elements, labelValues, maps,
                   hash, strBuf, intBuf, eventStats, conflictingEventStats,
                   eventsUnmapped, nextId, spc, sweep, histVars>>

(***************************************************************************)
(* removeStaleMetricsLoop and removeStaleMetrics, lines 509-544.  The      *)
(* sweeper takes no lock.  A range over a Go map visits every entry that   *)
(* is there from the start to the end of the loop, and may or may not      *)
(* visit an entry added meanwhile.                                         *)
(***************************************************************************)
IdleSweep ==
    [now |-> 0, pendingNames |-> {}, doneNames |-> {}, name |-> <<>>,
     map |-> 0, pendingKeys |-> {}, doneKeys |-> {}, key |-> <<>>,
     labels |-> EmptyLabels]

\* A variant that keeps a record one tick longer.
Expired_late(lvs, now) ==
    lvs.ttl # 0 /\ lvs.lastRegisteredAt + lvs.ttl + 1 < now

\* if lvs.ttl == 0 { continue }; if lvs.lastRegisteredAt.Add(lvs.ttl).Before(now)
Expired(lvs, now) == lvs.ttl # 0 /\ lvs.lastRegisteredAt + lvs.ttl < now

\* A variant whose Delete leaves the child in its vector.
DeleteSeries_keep(els, name, labels) == els

\* CounterContainer.Delete and its siblings, on all four containers.
DeleteSeries(els, name, labels) ==
    [f \in Families |->
        IF name \in DOMAIN els[f]
        THEN [els[f] EXCEPT ![name].children = Remove(@, labels)]
        ELSE els[f]]

HasChild(name, labels) ==
    \E f \in Families :
        /\ name \in DOMAIN Elements[f]
        /\ labels \in DOMAIN Elements[f][name].children

\* The LabelValues held by b.labelValues, each with its metric name.
TableRecords ==
    UNION { { [name |-> n, rec |-> maps[labelValues[n]][h]] :
                h \in DOMAIN maps[labelValues[n]] } :
            n \in DOMAIN labelValues }

\* The ticker fires once a second: the clock's unit.
Tick ==
    /\ clock < MaxClock
    /\ ~tickerStopped
    /\ clock' = clock + 1
    /\ tickPending' = TRUE
    /\ UNCHANGED <<parseVars, libVars, chanVars,
                   registered, Elements, labelValues, maps, hash, strBuf,
                   intBuf, eventStats, conflictingEventStats, eventsUnmapped,
                   nextId, pc, loc, spc, sweep, histVars>>

\* case _, ok := <-removeStaleMetricsTicker.C: now := clock.Now()
SweepStart ==
    /\ spc = "idle"
    /\ tickPending
    /\ tickPending' = FALSE
    /\ sweep' = [IdleSweep EXCEPT !.now = clock,
                                  !.pendingNames = DOMAIN labelValues]
    /\ spc' = "outer"
    /\ raced' = {}
    /\ due' = TableRecords
    /\ refreshed' = {}
    /\ swept' = {}
    /\ UNCHANGED <<parseVars, libVars, chanVars,
                   clock, registered, Elements, labelValues, maps, hash,
                   strBuf, intBuf, eventStats, conflictingEventStats,
                   eventsUnmapped, nextId, pc, loc, eventHist, registerCalls,
                   evicted>>

\* for metricName := range b.labelValues { for ... range b.labelValues[metricName]
SweepNextName ==
    /\ spc = "outer"
    /\ \E n \in DOMAIN labelValues \ sweep.doneNames :
          sweep' = [sweep EXCEPT !.name = n, !.map = labelValues[n],
                                 !.pendingKeys = DOMAIN maps[labelValues[n]],
                                 !.doneKeys = {}]
    /\ spc' = "inner"
    /\ UNCHANGED <<parseVars, libVars, chanVars,
                   clock, tickPending, registered, Elements, labelValues, maps,
                   hash, strBuf, intBuf, eventStats, conflictingEventStats,
                   eventsUnmapped, nextId, pc, loc, histVars>>

\* One iteration of the inner loop up to the decision of lines 532-535.
SweepJudge ==
    /\ spc = "inner"
    /\ \E h \in DOMAIN maps[sweep.map] \ sweep.doneKeys :
          LET lvs == maps[sweep.map][h]
          IN  IF Expired(lvs, sweep.now)
              THEN /\ sweep' = [sweep EXCEPT !.key = h, !.labels = lvs.labels]
                   /\ spc' = "deleteSeries"
              ELSE /\ sweep' = [sweep EXCEPT !.doneKeys = @ \cup {h}]
                   /\ spc' = "inner"
    /\ UNCHANGED <<parseVars, libVars, chanVars,
                   clock, tickPending, registered, Elements, labelValues, maps,
                   hash, strBuf, intBuf, eventStats, conflictingEventStats,
                   eventsUnmapped, nextId, pc, loc, histVars>>

\* b.Counters.Delete(...); b.Gauges.Delete(...); b.Summaries.Delete(...);
\* b.Histograms.Delete(metricName, lvs.labels)
SweepDeleteSeries ==
    /\ spc = "deleteSeries"
    /\ Elements' = DeleteSeries(Elements, sweep.name, sweep.labels)
    /\ evicted' = IF HasChild(sweep.name, sweep.labels)
                  THEN evicted \cup {<<sweep.name, sweep.labels>>}
                  ELSE evicted
    /\ swept' = swept \cup {<<sweep.name, sweep.labels>>}
    /\ spc' = "deleteRecord"
    /\ UNCHANGED <<parseVars, libVars, chanVars,
                   clock, tickPending, registered, labelValues, maps, hash,
                   strBuf, intBuf, eventStats, conflictingEventStats,
                   eventsUnmapped, nextId, pc, loc, sweep, eventHist,
                   registerCalls, raced, due, refreshed>>

\* delete(b.labelValues[metricName], hash)
SweepDeleteRecord ==
    /\ spc = "deleteRecord"
    /\ maps' = [maps EXCEPT ![labelValues[sweep.name]] = Remove(@, sweep.key)]
    /\ sweep' = [sweep EXCEPT !.doneKeys = @ \cup {sweep.key}]
    /\ loc' = [w \in Workers |-> [loc[w] EXCEPT !.racing = FALSE]]
    /\ spc' = "inner"
    /\ UNCHANGED <<parseVars, libVars, chanVars,
                   clock, tickPending, registered, Elements, labelValues, hash,
                   strBuf, intBuf, eventStats, conflictingEventStats,
                   eventsUnmapped, nextId, pc, histVars>>

\* The inner loop ends.
SweepNameDone ==
    /\ spc = "inner"
    /\ (sweep.pendingKeys \cap DOMAIN maps[sweep.map]) \subseteq sweep.doneKeys
    /\ sweep' = [sweep EXCEPT !.doneNames = @ \cup {sweep.name}]
    /\ spc' = "outer"
    /\ UNCHANGED <<parseVars, libVars, chanVars,
                   clock, tickPending, registered, Elements, labelValues, maps,
                   hash, strBuf, intBuf, eventStats, conflictingEventStats,
                   eventsUnmapped, nextId, pc, loc, histVars>>

\* The outer loop ends; removeStaleMetrics returns.
SweepEnd ==
    /\ spc = "outer"
    /\ sweep.pendingNames \subseteq sweep.doneNames
    /\ spc' = "idle"
    /\ sweep' = IdleSweep
    /\ due' = {}
    /\ refreshed' = {}
    /\ swept' = {}
    /\ UNCHANGED <<parseVars, libVars, chanVars,
                   clock, tickPending, registered, Elements, labelValues, maps,
                   hash, strBuf, intBuf, eventStats, conflictingEventStats,
                   eventsUnmapped, nextId, pc, loc, eventHist, registerCalls,
                   evicted, raced>>

(***************************************************************************)
(* The Go library functions lineToEvents uses, on strings as sequences of  *)
(* characters; a separator is one character.                               *)
(***************************************************************************)
\* strings.Index(s, sep) + 1: the first position of sep in s, 0 for none.
Index(s, sep) ==
    IF \E i \in 1..Len(s) : s[i] = sep
    THEN CHOOSE i \in 1..Len(s) :
            s[i] = sep /\ \A j \in 1..(i - 1) : s[j] # sep
    ELSE 0

\* strings.SplitN(s, sep, n), n >= 1
RECURSIVE SplitN(_, _, _)
SplitN(s, sep, n) ==
    LET i == Index(s, sep)
    IN  IF n = 1 \/ i = 0
        THEN <<s>>
        ELSE <<SubSeq(s, 1, i - 1)>> \o SplitN(SubSeq(s, i + 1, Len(s)), sep, n - 1)

\* strings.Split(s, sep): a string has fewer separators than characters + 1.
Split(s, sep) == SplitN(s, sep, Len(s) + 1)

\* strings.Contains(s, substr)
Contains(s, substr) ==
    \E i \in 1..(Len(s) - Len(substr) + 1) :
        SubSeq(s, i, i + Len(substr) - 1) = substr

\* strings.TrimPrefix(s, prefix), for a prefix of one character
TrimPrefix(s, prefix) ==
    IF Len(s) > 0 /\ s[1] = prefix THEN Tail(s) ELSE s

\* utf8.ValidString(s); InvalidByte stands for a byte that starts no
\* well-formed UTF-8 sequence (0xFF), every other character is ASCII.
InvalidByte == "<ff>"
ValidString(s) == \A i \in 1..Len(s) : s[i] # InvalidByte

DigitSeq == <<"0", "1", "2", "3", "4", "5", "6", "7", "8", "9">>
DigitValue(c) == (CHOOSE i \in 1..10 : DigitSeq[i] = c) - 1

RECURSIVE Atoi(_)
Atoi(s) ==
    IF s = <<>> THEN 0
    ELSE 10 * Atoi(SubSeq(s, 1, Len(s) - 1)) + DigitValue(s[Len(s)])

RECURSIVE Pow10(_)
Pow10(n) == IF n = 0 THEN 1 ELSE 10 * Pow10(n - 1)

AllDigits(s) == \A i \in 1..Len(s) : s[i] \in Digits

\* strconv.ParseFloat(s, 64) on decimal numerals: an optional sign, digits,
\* and an optional point followed by digits, with a digit on at least one
\* side of the point.  On a syntax error the value is 0.  (The exponent,
\* hexadecimal, infinity and NaN forms need characters no input here has.)
Decimal(negative, int, frac) ==
    IF AllDigits(int) /\ AllDigits(frac) /\ Len(int) + Len(frac) > 0
    THEN [ok |-> TRUE,
          value |-> Rat((IF negative THEN 0 - 1 ELSE 1) * Atoi(int \o frac),
                        Pow10(Len(frac)))]
    ELSE [ok |-> FALSE, value |-> Rat(0, 1)]

Unsigned(negative, parts) ==
    Decimal(negative, parts[1], IF Len(parts) = 2 THEN parts[2] ELSE <<>>)

ParseFloat(s) ==
    Unsigned(Len(s) > 0 /\ s[1] = "-",
             SplitN(IF Len(s) > 0 /\ s[1] \in {"+", "-"} THEN Tail(s) ELSE s,
                    ".", 2))

(***************************************************************************)
(* buildEvent, lines 585-611.                                              *)
(***************************************************************************)
buildEvent(statType, name, value, relative, labels) ==
    CASE statType = <<"c">> ->
            [ok |-> TRUE, event |-> CounterEvent(name, value, labels)]
      [] statType = <<"g">> ->
            [ok |-> TRUE, event |-> GaugeEvent(name, value, relative, labels)]
      [] statType \in {<<"m", "s">>, <<"h">>} ->
            [ok |-> TRUE, event |-> TimerEvent(name, value, labels)]
      [] OTHER ->
            [ok |-> FALSE, event |-> NoEvent]

(***************************************************************************)
(* parseDogStatsDTagsToLabels, lines 613-630.  escapeMetricName panics on  *)
(* an empty tag key; the panic ends the loop.                              *)
(***************************************************************************)
\* One iteration of the loop over the tags, kv being the split tag.
Tag(kv, acc) ==
    IF Len(kv) < 2 \/ Len(kv[2]) = 0
    THEN [acc EXCEPT !.tagErrors = @ + 1]
    ELSE IF escapeMetricNamePanics(kv[1])
    THEN [acc EXCEPT !.panicked = TRUE]
    ELSE [acc EXCEPT !.labels = Put(@, escapeMetricName(kv[1]), kv[2])]

RECURSIVE TagsToLabels(_, _)
TagsToLabels(tags, acc) ==
    IF tags = <<>> \/ acc.panicked
    THEN acc
    ELSE TagsToLabels(Tail(tags),
                      Tag(SplitN(TrimPrefix(Head(tags), "#"), ":", 2), acc))

parseDogStatsDTagsToLabels(component) ==
    TagsToLabels(Split(component, ","),
                 [labels |-> EmptyLabels, tagErrors |-> 0, panicked |-> FALSE])

(***************************************************************************)
(* lineToEvents, lines 653-728: what the loop body does with one sample.   *)
(***************************************************************************)
\* case '@', lines 690-708, parsed being what ParseFloat returned.
SamplingFactor(parsed, statType, st) ==
    LET factor == IF parsed.value.num = 0 THEN One ELSE parsed.value
    IN  [st EXCEPT
           !.errors = IF parsed.ok THEN @ ELSE Append(@, "invalid_sample_factor"),
           !.samplingFactor = factor,
           !.value = IF statType = <<"c">> THEN RatDiv(@, factor) ELSE @,
           !.multiplyEvents = IF statType = <<"m", "s">>
                              THEN IntOfInverse(factor) ELSE @]

\* case '#', line 710, tags being what parseDogStatsDTagsToLabels returned.
Tags(tags, st) ==
    [st EXCEPT !.labels = tags.labels,
               !.tagsReceived = @ + 1,
               !.tagErrors = @ + tags.tagErrors,
               !.panicked = tags.panicked]

\* One iteration of the loop over components[2:], lines 687-716, on the
\* locals st of the enclosing iteration.
Component(component, statType, st) ==
    CASE component[1] = "@" ->
            IF statType # <<"c">> /\ statType # <<"m", "s">>
            THEN [st EXCEPT !.errors = Append(@, "illegal_sample_factor")]
            ELSE SamplingFactor(ParseFloat(Tail(component)), statType, st)
      [] component[1] = "#" ->
            Tags(parseDogStatsDTagsToLabels(component), st)
      [] OTHER ->
            [st EXCEPT !.errors = Append(@, "invalid_sample_factor")]

RECURSIVE Components(_, _, _)
Components(components, statType, st) ==
    IF components = <<>> \/ st.panicked
    THEN st
    ELSE Components(Tail(components), statType,
                    Component(Head(components), statType, st))

\* What a sample adds: no event, and the error counters incremented.
Rejected(errors) ==
    [events |-> <<>>, errors |-> errors, tagsReceived |-> 0, tagErrors |-> 0,
     panicked |-> FALSE]

\* Lines 719-727, st being the locals after the loop over components[2:]
\* and built what buildEvent returns.
Built(built, st) ==
    LET times == IF st.multiplyEvents > 0 THEN st.multiplyEvents ELSE 0
    IN  [events |-> IF built.ok /\ ~st.panicked
                    THEN [i \in 1..times |-> built.event] ELSE <<>>,
         errors |-> st.errors \o
                    (IF built.ok \/ st.panicked THEN <<>>
                     ELSE [i \in 1..times |-> "illegal_event"]),
         tagsReceived |-> st.tagsReceived,
         tagErrors |-> st.tagErrors,
         panicked |-> st.panicked]

Build(statType, name, relative, st) ==
    Built(buildEvent(statType, name, st.value, relative, st.labels), st)

\* Lines 662-717, parsed being what ParseFloat returned for components[0].
Valued(components, parsed, name) ==
    IF ~parsed.ok
    THEN Rejected(<<"malformed_value">>)
    ELSE IF \E i \in 3..Len(components) : Len(components[i]) = 0
    THEN Rejected(<<"malformed_component">>)
    ELSE Build(components[2], name,
               Index(components[1], "+") = 1 \/ Index(components[1], "-") = 1,
               Components(SubSeq(components, 3, Len(components)), components[2],
                          [value |-> parsed.value, samplingFactor |-> One,
                           multiplyEvents |-> 1, labels |-> EmptyLabels,
                           errors |-> <<>>, tagsReceived |-> 0, tagErrors |-> 0,
                           panicked |-> FALSE]))

\* Lines 655-661.
ComponentsToEvents(components, name) ==
    IF Len(components) < 2 \/ Len(components) > 4
    THEN Rejected(<<"malformed_component">>)
    ELSE Valued(components, ParseFloat(components[1]), name)

\* The events a sample adds, and the counters it increments.
SampleToEvents(sample, name) == ComponentsToEvents(Split(sample, "|"), name)

RECURSIVE BumpAll(_, _)
BumpAll(f, keys) ==
    IF keys = <<>> THEN f ELSE BumpAll(Bump(f, Head(keys), 1), Tail(keys))

(***************************************************************************)
(* The lines given to lineToEvents.                                        *)
(***************************************************************************)
RECURSIVE Join(_, _)
Join(strs, sep) ==
    IF Len(strs) = 0 THEN <<>>
    ELSE IF Len(strs) = 1 THEN strs[1]
    ELSE strs[1] \o sep \o Join(Tail(strs), sep)

ValueStrs == { <<"1">>, <<"-", "1">>, <<"x">> }
StatTypes == { <<"c">>, <<"g">>, <<"m", "s">>, <<"h">>, <<"s">>, <<"x">> }

Rate_half  == <<"@", "0", ".", "5">>
Rate_zero  == <<"@", "0">>
Rate_two   == <<"@", "2">>
Rate_minus == <<"@", "-", "1">>
Rate_bad   == <<"@", "x">>
Rate_small == <<"@", "0", ".", "0", "0", "0", "3", "2">>
Tag_kv     == <<"#", "k", ":", "v">>
Tag_nokey  == <<"#", ":", "v">>
Tag_noval  == <<"#", "k", ":">>
Tag_two    == <<"#", "9", "k", ":", "v", ",", "l", ":", "w">>

\* components[2:] of a sample
Modifiers ==
       { <<>> }
  \cup { <<c>> : c \in { Rate_half, Rate_zero, Rate_two, Rate_minus, Rate_bad,
                         Tag_kv, Tag_nokey, Tag_noval, Tag_two,
                         <<>>, <<"x">> } }
  \cup { <<Rate_half, Tag_kv>>, <<Tag_kv, Rate_half>>, <<Rate_half, Rate_half>>,
         <<Rate_half, Tag_kv, <<"x">>>> }

Samples ==
       { Join(<<v, t>> \o m, <<"|">>) :
            v \in ValueStrs, t \in StatTypes, m \in Modifiers }
  \cup { <<"1">>, <<>> }

Lines ==
       { Join(<<N_foo, s>>, <<":">>) : s \in Samples }
  \cup { Join(<<N_foo, <<"1", "|", "c">>, s>>, <<":">>) :
            s \in { <<"2", "|", "g">>, <<"x", "|", "c">>, <<"1", "|", "s">>,
                    <<"3", "|", "m", "s", "|">> \o Rate_two,
                    <<"2", "|", "m", "s", "|">> \o Tag_kv } }
  \cup { Join(<<N_foo, <<"1", "|", "m", "s", "|">> \o Rate_small>>, <<":">>) }
  \cup { Join(<<N_foo>> \o ss, <<":">>) :
            ss \in { << <<"x", "|", "c">>, <<"1", "|", "c">> >>,
                     << <<"1">>, <<"2", "|", "g">> >>,
                     << <<"1", "|", "c", "|", "a", "|", "b", "|", "c">>,
                        <<"2", "|", "g">> >>,
                     << <<"1", "|", "c", "|">>, <<"2", "|", "g">> >>,
                     << <<"1", "|", "c">>, <<"2">>, <<"3", "|", "g">> >> } }
  \cup { <<>>, N_foo, <<":", "1", "|", "c">>,
         N_foo \o <<":", "1", "|", "c", InvalidByte>> }

(***************************************************************************)
(* lineToEvents, lines 632-730, as the steps of one call.                  *)
(***************************************************************************)
\* Lines 638-651, elements being the split line.
ElementsToSamples(elements) ==
    IF Len(elements) < 2 \/ Len(elements[1]) = 0 \/ ~ValidString(line)
    THEN /\ sampleErrors' = Bump(sampleErrors, "malformed_line", 1)
         /\ ppc' = "done"
         /\ UNCHANGED <<metric, samples>>
    ELSE /\ metric' = elements[1]
         /\ samples' = IF Contains(elements[2], <<"|", "#">>)
                       THEN <<elements[2]>>
                       ELSE Split(elements[2], ":")
         /\ ppc' = "samples"
         /\ UNCHANGED sampleErrors

\* Lines 633-651.
LineToEventsBegin ==
    /\ ppc = "begin"
    /\ IF line = <<>>
       THEN /\ ppc' = "done"
            /\ UNCHANGED <<metric, samples, sampleErrors>>
       ELSE ElementsToSamples(SplitN(line, ":", 2))
    /\ UNCHANGED <<line, events, samplesReceived, tagsReceived, tagErrors,
                   sampleLog, progVars, histVars, chanVars,
                   libVars>>

\* A variant in which a sample that adds no event ends the loop.
Sampled_abort(r) ==
    /\ samplesReceived' = samplesReceived + 1
    /\ sampleErrors' = BumpAll(sampleErrors, r.errors)
    /\ tagsReceived' = tagsReceived + r.tagsReceived
    /\ tagErrors' = tagErrors + r.tagErrors
    /\ events' = events \o r.events
    /\ sampleLog' = Append(sampleLog,
                           [sample |-> Head(samples),
                            events |-> Len(r.events),
                            values |-> {r.events[j].value :
                                          j \in 1..Len(r.events)},
                            errors |-> Len(r.errors) + r.tagErrors])
    /\ ppc' = IF r.panicked THEN "panic"
              ELSE IF r.events = <<>> THEN "done" ELSE "samples"

\* What one iteration of the loop leaves, r being what the sample adds.
Sampled(r) ==
    /\ samplesReceived' = samplesReceived + 1
    /\ sampleErrors' = BumpAll(sampleErrors, r.errors)
    /\ tagsReceived' = tagsReceived + r.tagsReceived
    /\ tagErrors' = tagErrors + r.tagErrors
    /\ events' = events \o r.events
    /\ sampleLog' = Append(sampleLog,
                           [sample |-> Head(samples),
                            events |-> Len(r.events),
                            values |-> {r.events[j].value :
                                          j \in 1..Len(r.events)},
                            errors |-> Len(r.errors) + r.tagErrors])
    /\ ppc' = IF r.panicked THEN "panic" ELSE "samples"

\* One iteration of the loop over the samples, lines 653-728.
LineToEventsSample ==
    /\ ppc = "samples"
    /\ samples # <<>>
    /\ Sampled(SampleToEvents(Head(samples), metric))
    /\ samples' = Tail(samples)
    /\ UNCHANGED <<line, metric, progVars, histVars, chanVars,
                   libVars>>

\* return events
LineToEventsReturn ==
    /\ ppc = "samples"
    /\ samples = <<>>
    /\ ppc' = "done"
    /\ UNCHANGED <<line, metric, samples, events, sampleErrors, samplesReceived,
                   tagsReceived, tagErrors, sampleLog, progVars, histVars, chanVars,
                   libVars>>

(***************************************************************************)
(* escapeMetricName on its own, lines 343-352.                             *)
(***************************************************************************)
\* A digit, a letter, the underscore, and two characters the pattern
\* [^a-zA-Z0-9_] matches.
EscapeChars == {"9", "a", "_", ".", "-"}

\* The non-empty strings of at most MaxLen characters.
EscapeInputs == UNION { [1..n -> EscapeChars] : n \in 1..MaxLen }

\* One call of escapeMetricName: on the input, then on the last result.
Escape ==
    /\ Len(escOut) < 2
    /\ ~escapeMetricNamePanics(escIn)
    /\ escOut' = Append(escOut, escapeMetricName(IF escOut = <<>> THEN escIn
                                                 ELSE escOut[Len(escOut)]))
    /\ UNCHANGED <<progVars, histVars, parseVars, chanVars, escIn, udpVars,
                   cacheVars>>

(***************************************************************************)
(* The UDP listener, lines 736-778.                                        *)
(***************************************************************************)
UDPReaders == {"r1", "r2"}  \* the goroutines started by StatsDUDPListener.Listen

\* concurrentHandlersPerThread := packetHandlers / threadCount
concurrentHandlersPerThread == PacketHandlers \div Cardinality(UDPReaders)

\* What lineToEvents returns for a list of samples: the events, or a panic.
RECURSIVE SamplesToEvents(_, _, _)
SamplesToEvents(smpls, name, acc) ==
    IF smpls = <<>> \/ acc.panicked
    THEN acc
    ELSE SamplesToEvents(Tail(smpls), name,
                         [events |-> acc.events
                                       \o SampleToEvents(Head(smpls), name).events,
                          panicked |-> SampleToEvents(Head(smpls), name).panicked])

\* Lines 638-651 on the split line.
ElementsToEvents(l, elements) ==
    IF Len(elements) < 2 \/ Len(elements[1]) = 0 \/ ~ValidString(l)
    THEN [events |-> <<>>, panicked |-> FALSE]
    ELSE SamplesToEvents(IF Contains(elements[2], <<"|", "#">>)
                         THEN <<elements[2]>>
                         ELSE Split(elements[2], ":"),
                         elements[1], [events |-> <<>>, panicked |-> FALSE])

\* What lineToEvents(l) returns.
lineToEvents(l) ==
    IF l = <<>> THEN [events |-> <<>>, panicked |-> FALSE]
    ELSE ElementsToEvents(l, SplitN(l, ":", 2))

\* for _, line := range lines { events = append(events, lineToEvents(line)...) }
RECURSIVE LinesToEvents(_, _)
LinesToEvents(lines, acc) ==
    IF lines = <<>> \/ acc.panicked
    THEN acc
    ELSE LinesToEvents(Tail(lines),
                       [events |-> acc.events \o lineToEvents(Head(lines)).events,
                        panicked |-> lineToEvents(Head(lines)).panicked])

\* The packets: two lines, one line of two samples, a line with an empty tag
\* key, and the empty packet.
Packets ==
    { N_foo \o <<":", "1", "|", "c", "\n">> \o N_bar \o <<":", "2", "|", "g">>,
      N_foo \o <<":", "1", "|", "c", ":", "2", "|", "c">>,
      N_foo \o <<":", "1", "|", "c", "|", "#", ":", "v">>,
      <<>> }

\* handlePacket, lines 769-778, r being the events of the packet's lines:
\* a panic in lineToEvents ends the process before anything is sent.
Handled(id, r) ==
    /\ handled' = Bump(handled, id, 1)
    /\ IF r.panicked
       THEN /\ crashed' = TRUE
            /\ UNCHANGED <<queue, batchesOf>>
       ELSE /\ crashed' = FALSE
            /\ queue' = Append(queue, [id |-> id, events |-> r.events])
            /\ batchesOf' = Put(batchesOf, id,
                                Append(IF id \in DOMAIN batchesOf
                                       THEN batchesOf[id] ELSE <<>>,
                                       r.events))

handlePacket(id) ==
    Handled(id, LinesToEvents(Split(packets[id], "\n"),
                              [events |-> <<>>, panicked |-> FALSE]))

\* A variant that lets one more element into the channel than it holds.
SemFull_lax(n, cap) == n > cap

\* case sem <- struct{}{} cannot proceed: the channel holds cap elements
\* (with cap = 0 it is unbuffered and nothing ever receives at that moment).
SemFull(n, cap) == n >= cap

\* ReadFromUDP, the copy of the payload, and the select: a goroutine for
\* the packet, or the default branch.
UDPRead(r) ==
    /\ ~crashed
    /\ upc[r] = "read"
    /\ Len(packets) < MaxPackets
    /\ \E p \in Packets : packets' = Append(packets, p)
    /\ IF SemFull(sem[r], concurrentHandlersPerThread)
       THEN /\ upc' = [upc EXCEPT ![r] = "handle"]
            /\ upkt' = [upkt EXCEPT ![r] = Len(packets) + 1]
            /\ UNCHANGED <<sem, async>>
       ELSE /\ sem' = [sem EXCEPT ![r] = @ + 1]
            /\ async' = async \cup {[reader |-> r, id |-> Len(packets) + 1,
                                      at |-> "handle"]}
            /\ UNCHANGED <<upc, upkt>>
    /\ UNCHANGED <<progVars, histVars, parseVars, chanVars, escVars, cacheVars,
                   crashed, handled, batchesOf>>

\* default: l.handlePacket(data[0:n], e), by the reader itself
UDPHandle(r) ==
    /\ ~crashed
    /\ upc[r] = "handle"
    /\ handlePacket(upkt[r])
    /\ upc' = [upc EXCEPT ![r] = "read"]
    /\ upkt' = [upkt EXCEPT ![r] = 0]
    /\ UNCHANGED <<progVars, histVars, parseVars, escVars, cacheVars,
                   closed, lpc, batch, tickerStopped, tickerClosed, produced,
                   received, atClose, sem, async, packets>>

\* go func() { l.handlePacket(data[0:n], e) ...
UDPHandleAsync(h) ==
    /\ ~crashed
    /\ h \in async
    /\ h.at = "handle"
    /\ handlePacket(h.id)
    /\ async' = (async \ {h}) \cup {[h EXCEPT !.at = "release"]}
    /\ UNCHANGED <<progVars, histVars, parseVars, escVars, cacheVars,
                   closed, lpc, batch, tickerStopped, tickerClosed, produced,
                   received, atClose, upc, upkt, sem, packets>>

\* ... <-sem }()
UDPRelease(h) ==
    /\ ~crashed
    /\ h \in async
    /\ h.at = "release"
    /\ sem' = [sem EXCEPT ![h.reader] = @ - 1]
    /\ async' = async \ {h}
    /\ UNCHANGED <<progVars, histVars, parseVars, chanVars, escVars, cacheVars,
                   upc, upkt, crashed, packets, handled, batchesOf>>

\* The goroutines a packet can be given to.
Handlers ==
    [reader : UDPReaders, id : 1..MaxPackets, at : {"handle", "release"}]


(***************************************************************************)
(* MetricMapperCache: the lru cache of src/unnamed/part_001 and the         *)
(* fastcache one of src/pkg/mapper/mapper_cache.go.  lru.Cache keeps at     *)
(* most size entries, evicting the least recently used (Add and Get both    *)
(* count as a use).                                                         *)
(***************************************************************************)
CacheKeys == {"k1", "k2", "k3"}
CacheMappings == {"m1", "m2"}       \* *MetricMapping values
Implementations == {"lru", "fastcache"}

\* &MetricMapperCacheResult{Mapping: mapping, Matched: true, Labels: labels}
MatchResult(mapping, labels) ==
    [Matched |-> TRUE, Mapping |-> mapping, Labels |-> labels]

\* &MetricMapperCacheResult{Matched: false}
MissResult == [Matched |-> FALSE, Mapping |-> "", Labels |-> EmptyLabels]

\* What Get returns: the pointer (isNil: it is nil) with the fields it
\* points to, and the boolean.
Result(found, isNil, r) ==
    [found |-> found, isNil |-> isNil, Matched |-> r.Matched,
     Mapping |-> r.Mapping, Labels |-> r.Labels]

NoResult == Result(FALSE, TRUE, MissResult)

\* xdr.Marshal(&w, &v): the encoding of v.
Marshal(v) == [xdr |-> v]

\* lru.Cache: key k becomes the most recently used.
Touch(keys, k) == SelectSeq(keys, LAMBDA x : x # k) \o <<k>>

\* lru.Cache.Add, with the eviction of the oldest entry beyond size.
LruAdd(k, v) ==
    LET keys == Touch(order, k)
        kept == IF Len(keys) > CacheSize THEN Tail(keys) ELSE keys
        held == {kept[i] : i \in 1..Len(kept)}
    IN  /\ order' = kept
        /\ cache' = [x \in held |-> IF x = k THEN v ELSE cache[x]]
        /\ stored' = [x \in held |-> IF x = k THEN v ELSE stored[x]]

\* fastcache.Cache.Set of the encoded result.
FastcacheSet(k, v) ==
    /\ cache' = Put(cache, k, Marshal(v))
    /\ stored' = Put(stored, k, v)
    /\ UNCHANGED order

\* m.cache.Add / m.cache.Set of both implementations
CacheAdd(k, v) ==
    /\ IF impl = "lru" THEN LruAdd(k, v) ELSE FastcacheSet(k, v)
    /\ UNCHANGED <<progVars, histVars, parseVars, chanVars, escVars, udpVars,
                   impl, got, asked>>

AddMatch(k, mapping, labels) == CacheAdd(k, MatchResult(mapping, labels))

AddMiss(k) == CacheAdd(k, MissResult)

\* return result.(*MetricMapperCacheResult), true
Found(r) == Result(TRUE, FALSE, r)

\* Get of the lru cache, part_001 lines 62-70.
LruGet(k) ==
    IF k \in DOMAIN cache
    THEN /\ got' = Found(cache[k])
         /\ order' = Touch(order, k)
    ELSE /\ got' = NoResult
         /\ UNCHANGED order

\* Get of the fastcache cache, mapper_cache.go lines 65-80: result is a nil
\* pointer passed by value to xdr.Unmarshal, so it is nil afterwards as well;
\* Unmarshal either reports an error (nil, false) or does not (result, true).
FastcacheGet(k) ==
    /\ IF k \in DOMAIN cache
       THEN \E err \in BOOLEAN : got' = Result(~err, TRUE, MissResult)
       ELSE got' = NoResult
    /\ UNCHANGED order

Get(k) ==
    /\ IF impl = "lru" THEN LruGet(k) ELSE FastcacheGet(k)
    /\ asked' = [key |-> k, present |-> k \in DOMAIN stored,
                 expected |-> IF k \in DOMAIN stored THEN stored[k]
                                                     ELSE MissResult]
    /\ UNCHANGED <<progVars, histVars, parseVars, chanVars, escVars, udpVars,
                   impl, cache, stored>>

(***************************************************************************)
(* Listen and Listener, lines 356-380, on the events channel e, and the    *)
(* select of removeStaleMetricsLoop, lines 510-521.                        *)
(***************************************************************************)
\* The batches the UDP and TCP listeners send: the events of one packet.
Batches ==
    { <<Input(CounterEvent(N_foo, 1, L_p), NoMapping)>>,
      <<Input(CounterEvent(N_foo, 1, L_p), NoMapping),
        Input(CounterEvent(N_foo, 0 - 1, L_p), NoMapping)>>,
      <<>> }

\* e <- events, by a packet handler
Send ==
    /\ ~closed
    /\ Len(produced) < MaxBatches
    /\ \E b \in Batches :
          /\ queue' = Append(queue, [id |-> Len(produced) + 1, events |-> b])
          /\ produced' = Append(produced, b)
    /\ UNCHANGED <<progVars, histVars, parseVars, libVars, closed, lpc, batch,
                   tickerStopped, tickerClosed, received, atClose>>

\* close(e)
Close ==
    /\ ~closed
    /\ closed' = TRUE
    /\ atClose' = Len(queue)
    /\ UNCHANGED <<progVars, histVars, parseVars, libVars, queue, lpc, batch,
                   tickerStopped, tickerClosed, produced, received>>

\* A variant in which a receive fails as soon as the channel is closed.
RecvNotOk_early(q, c) == c

\* events, ok := <-e gives ok = false when e is closed and holds no batch.
RecvNotOk(q, c) == c /\ q = <<>>

\* case events, ok := <-e, with ok
ListenerReceive(w) ==
    /\ lpc[w] = "select"
    /\ queue # <<>>
    /\ ~RecvNotOk(queue, closed)
    /\ batch' = [batch EXCEPT ![w] = Head(queue).events]
    /\ received' = Bump(received, Head(queue).id, 1)
    /\ queue' = Tail(queue)
    /\ lpc' = [lpc EXCEPT ![w] = "range"]
    /\ UNCHANGED <<progVars, histVars, parseVars, libVars, closed, tickerStopped,
                   tickerClosed, produced, atClose>>

\* for _, event := range events { b.handleEvent(event) }: the call
ListenerHandle(w) ==
    /\ lpc[w] = "range"
    /\ pc[w] = "idle"
    /\ batch[w] # <<>>
    /\ HandleEventBegin(w, Head(batch[w]).ev, Head(batch[w]).res)
    /\ batch' = [batch EXCEPT ![w] = Tail(@)]
    /\ UNCHANGED <<queue, closed, lpc, tickerStopped, tickerClosed, produced,
                   received, atClose>>

\* the range loop ends: back to the select
ListenerNext(w) ==
    /\ lpc[w] = "range"
    /\ pc[w] = "idle"
    /\ batch[w] = <<>>
    /\ lpc' = [lpc EXCEPT ![w] = "select"]
    /\ UNCHANGED <<progVars, histVars, parseVars, libVars, queue, closed, batch,
                   tickerStopped, tickerClosed, produced, received, atClose>>

\* if !ok { removeStaleMetricsTicker.Stop(); return }.  time.Ticker.Stop
\* turns the ticker off and does not close its channel.
ListenerReturn(w) ==
    /\ lpc[w] = "select"
    /\ RecvNotOk(queue, closed)
    /\ tickerStopped' = TRUE
    /\ lpc' = [lpc EXCEPT ![w] = "returned"]
    /\ UNCHANGED <<progVars, histVars, parseVars, libVars, queue, closed, batch,
                   tickerClosed, produced, received, atClose>>

Listener(w) ==
    \/ ListenerReceive(w)
    \/ ListenerHandle(w)
    \/ ListenerNext(w)
    \/ ListenerReturn(w)

\* The select of removeStaleMetricsLoop with no tick waiting: a receive from
\* the ticker's channel gives ok = false only when the channel is closed
\* (return, line 516); otherwise the default branch sleeps 100 ms.
SweepNoTick ==
    /\ spc = "idle"
    /\ ~tickPending
    /\ spc' = IF tickerClosed THEN "returned" ELSE "sleep"
    /\ UNCHANGED <<parseVars, libVars, chanVars,
                   clock, tickPending, registered, Elements, labelValues, maps,
                   hash, strBuf, intBuf, eventStats, conflictingEventStats,
                   eventsUnmapped, nextId, pc, loc, sweep, histVars>>

\* time.Sleep returns; the loop goes round.
SweepWake ==
    /\ spc = "sleep"
    /\ spc' = "idle"
    /\ UNCHANGED <<parseVars, libVars, chanVars,
                   clock, tickPending, registered, Elements, labelValues, maps,
                   hash, strBuf, intBuf, eventStats, conflictingEventStats,
                   eventsUnmapped, nextId, pc, loc, sweep, histVars>>

(***************************************************************************)
(* The exporter: NewExporter, then event workers and the sweeper.          *)
(***************************************************************************)
InitExporter ==
    /\ clock = 0
    /\ tickPending = FALSE
    /\ registered = EmptyMap
    /\ Elements = [f \in Families |-> EmptyMap]
    /\ labelValues = EmptyMap
    /\ maps = <<>>
    /\ hash = <<>>
    /\ strBuf = <<>>
    /\ intBuf = ZeroToken
    /\ eventStats = EmptyMap
    /\ conflictingEventStats = EmptyMap
    /\ eventsUnmapped = 0
    /\ nextId = 1
    /\ pc = [w \in Workers |-> "idle"]
    /\ loc = [w \in Workers |-> IdleLoc]
    /\ spc = "idle"
    /\ sweep = IdleSweep
    /\ started = 0
    /\ registerCalls = EmptyMap
    /\ sent = EmptyMap
    /\ nameUse = EmptyMap
    /\ gaugeLog = EmptyMap
    /\ evicted = {}
    /\ raced = {}
    /\ due = {}
    /\ refreshed = {}
    /\ swept = {}

\* No line is being parsed; the self-metrics of the parser are at zero.
InitParser(l, at) ==
    /\ line = l
    /\ ppc = at
    /\ metric = <<>>
    /\ samples = <<>>
    /\ events = <<>>
    /\ sampleErrors = EmptyMap
    /\ samplesReceived = 0
    /\ tagsReceived = 0
    /\ tagErrors = 0
    /\ sampleLog = <<>>

\* Listen has started its Listener goroutines; nothing is in the channel.
InitChannel ==
    /\ queue = <<>>
    /\ closed = FALSE
    /\ lpc = [w \in Workers |-> "select"]
    /\ batch = [w \in Workers |-> <<>>]
    /\ tickerStopped = FALSE
    /\ tickerClosed = FALSE
    /\ produced = <<>>
    /\ received = EmptyMap
    /\ atClose = 0

\* escapeMetricName has not been called on its own.
InitEscape(s) ==
    /\ escIn = s
    /\ escOut = <<>>

\* The UDP readers are about to read; no packet has arrived.
InitUDP ==
    /\ upc = [r \in UDPReaders |-> "read"]
    /\ upkt = [r \in UDPReaders |-> 0]
    /\ sem = [r \in UDPReaders |-> 0]
    /\ async = {}
    /\ crashed = FALSE
    /\ packets = <<>>
    /\ handled = EmptyMap
    /\ batchesOf = EmptyMap

\* NewMetricMapperCache: an empty cache of the implementation i.
InitCache(i) ==
    /\ impl = i
    /\ cache = EmptyMap
    /\ order = <<>>
    /\ got = NoResult
    /\ stored = EmptyMap
    /\ asked = [key |-> "", present |-> FALSE, expected |-> MissResult]

InitLib == InitEscape(<<>>) /\ InitUDP /\ InitCache("lru")

Init == InitExporter /\ InitParser(<<>>, "done") /\ InitChannel /\ InitLib

\* handleEvent after its first step.
Worker(w) ==
    \/ GetLookup(w)
    \/ GetRegister(w)
    \/ GetInsert(w)
    \/ GetMetric(w)
    \/ Apply(w)
    \/ SaveLookup(w)
    \/ SaveNewMap(w)
    \/ HashReset(w)
    \/ HashName(w)
    \/ HashLabels(w)
    \/ HashSum(w)
    \/ SaveRecord(w)
    \/ RefreshTime(w)
    \/ RefreshTtl(w)
    \/ Return(w)

Sweeper ==
    \/ SweepStart
    \/ SweepNextName
    \/ SweepJudge
    \/ SweepDeleteSeries
    \/ SweepDeleteRecord
    \/ SweepNameDone
    \/ SweepEnd

\* The event workers racing with each other; no tick is delivered.
NextWorkers ==
    \E w \in Workers :
        \/ Begin(w, InputsWorkers)
        \/ Worker(w)

SpecWorkers == Init /\ [][NextWorkers]_vars

\* The event workers racing on one name through all four families.
NextFamilies ==
    \E w \in Workers :
        \/ Begin(w, InputsFamilies)
        \/ Worker(w)

SpecFamilies == Init /\ [][NextFamilies]_vars

\* One event worker racing with the sweeper.
NextSweep ==
    \/ Begin("w1", InputsSweep)
    \/ Worker("w1")
    \/ Sweeper
    \/ Tick

SpecSweep == Init /\ [][NextSweep]_vars

\* One event worker on two names racing with the sweeper.
NextLocks ==
    \/ Begin("w1", InputsLocks)
    \/ Worker("w1")
    \/ Sweeper
    \/ Tick

SpecLocks == Init /\ [][NextLocks]_vars

\* One event worker and the sweeper taking turns: the runs in which no sweep
\* is in progress while handleEvent executes, and no call begins during a
\* sweep.
BeginInTurn == spc = "idle" /\ Begin("w1", InputsSweep)

SweeperInTurn == pc["w1"] = "idle" /\ Sweeper

NextEvict ==
    \/ BeginInTurn
    \/ Worker("w1")
    \/ SweeperInTurn
    \/ Tick

SpecEvict == Init /\ [][NextEvict]_vars

\* One event worker handling gauge events one after the other.
NextGauges ==
    \/ BeginGauge("w1")
    \/ Worker("w1")

SpecGauges == Init /\ [][NextGauges]_vars

\* removeStaleMetricsLoop: the select, and removeStaleMetrics on a tick.
SweeperLoop ==
    \/ Sweeper
    \/ SweepNoTick
    \/ SweepWake

\* Listen with two Listeners, the packet handlers sending batches, and the
\* close of the channel.  The Go scheduler lets every goroutine that can run
\* do so eventually.
NextDrain ==
    \/ Send
    \/ Close
    \/ \E w \in Workers : Listener(w) \/ Worker(w)

SpecDrain ==
    /\ Init
    /\ [][NextDrain]_vars
    /\ \A w \in Workers : WF_vars(Listener(w) \/ Worker(w))

\* Listen's own Listener, the sweeper's loop and the ticker.
NextShutdown ==
    \/ Send
    \/ Close
    \/ Listener("w1")
    \/ Worker("w1")
    \/ SweeperLoop
    \/ Tick

SpecShutdown ==
    /\ Init
    /\ [][NextShutdown]_vars
    /\ WF_vars(Listener("w1") \/ Worker("w1"))
    /\ WF_vars(SweeperLoop)

\* One worker handling events the mapper matches, drops or does not match.
NextMapping ==
    \/ Begin("w1", InputsMapping)
    \/ Worker("w1")

SpecMapping == Init /\ [][NextMapping]_vars

\* One worker handling events of every outcome, one call after the other.
NextStats ==
    \/ Begin("w1", InputsStats)
    \/ Worker("w1")

SpecStats == Init /\ [][NextStats]_vars

\* StatsDUDPListener.Listen: the readers and the goroutines they start.
NextUDP ==
    \/ \E r \in UDPReaders : UDPRead(r) \/ UDPHandle(r)
    \/ \E h \in Handlers : UDPHandleAsync(h) \/ UDPRelease(h)

SpecUDP == Init /\ [][NextUDP]_vars

\* The mapper's calls on its cache, for either implementation.
InitCacheAlone ==
    /\ InitExporter /\ InitParser(<<>>, "done") /\ InitChannel
    /\ InitEscape(<<>>) /\ InitUDP
    /\ \E i \in Implementations : InitCache(i)

NextCache ==
    \E k \in CacheKeys :
        \/ \E m \in CacheMappings, l \in {L_p, L_q} : AddMatch(k, m, l)
        \/ AddMiss(k)
        \/ Get(k)

SpecCache == InitCacheAlone /\ [][NextCache]_vars

\* escapeMetricName applied to a string, and again to what it returned.
InitEscapeAlone ==
    /\ InitExporter /\ InitParser(<<>>, "done") /\ InitChannel
    /\ InitUDP /\ InitCache("lru")
    /\ \E s \in EscapeInputs : InitEscape(s)

SpecEscape == InitEscapeAlone /\ [][Escape]_vars

\* One call of lineToEvents, on any of the lines.
InitParse ==
    /\ InitExporter /\ InitChannel /\ InitLib
    /\ \E l \in Lines : InitParser(l, "begin")

NextParse ==
    \/ LineToEventsBegin
    \/ LineToEventsSample
    \/ LineToEventsReturn

SpecParse == InitParse /\ [][NextParse]_vars

(***************************************************************************)
(* What a scrape and the label-values table show.                          *)
(***************************************************************************)
AllNames == {N_foo, N_bar}
AllLabels == {EmptyLabels, L_p, L_q}

\* No handleEvent call and no sweep is in progress.
Quiescent == spc = "idle" /\ \A w \in Workers : pc[w] = "idle"

HasRecord(name, labels) ==
    /\ name \in DOMAIN labelValues
    /\ \E h \in DOMAIN maps[labelValues[name]] :
          maps[labelValues[name]][h].labels = labels

RecordPresent(id) == \E r \in TableRecords : r.rec.id = id

ExportedCounter(name, labels) ==
    IF /\ name \in DOMAIN Elements["counter"]
       /\ labels \in DOMAIN Elements["counter"][name].children
    THEN Elements["counter"][name].children[labels].val
    ELSE 0

(***************************************************************************)
(* C1.  For every metric name and every container, however the calls of    *)
(* Get by the event workers interleave, prometheus.Register is called at   *)
(* most once for that name.                                                *)
(***************************************************************************)
C1_RegisterCalledAtMostOnce ==
    \A k \in DOMAIN registerCalls : registerCalls[k] <= 1

(***************************************************************************)
(* C2.  Once every handleEvent call has returned, the exported value of a  *)
(* counter series that was never evicted equals the sum of the values of   *)
(* the non-negative CounterEvents handled for it.  The series considered   *)
(* are those of a name that only ever saw CounterEvents with one set of    *)
(* label names, so that no event is a conflict by family or label names.   *)
(***************************************************************************)
OnlyCounterUse(name, labels) ==
    nameUse[name] = {[family |-> "counter", labelNames |-> labelNames(labels)]}

C2_CounterEqualsSum ==
    Quiescent =>
        \A k \in DOMAIN sent :
            (k \notin evicted /\ OnlyCounterUse(k[1], k[2]))
                => ExportedCounter(k[1], k[2]) = sent[k]

(***************************************************************************)
(* C3.  In every quiescent state a LabelValues record for (name, labels)   *)
(* exists iff one of the four containers holds the child (name, labels).   *)
(***************************************************************************)
C3_RecordIffChild ==
    Quiescent =>
        \A name \in AllNames, labels \in AllLabels :
            HasRecord(name, labels) <=> HasChild(name, labels)

(***************************************************************************)
(* C4.  Original statement: a record with ttl > 0 that is in the table     *)
(* when a sweep starts with now - lastRegisteredAt >= ttl, and that no     *)
(* worker writes during the sweep, is erased and its series Deleted by the *)
(* time the sweep has finished its loops.                                  *)
(***************************************************************************)
\* removeStaleMetrics has left both loops and is about to return.
SweepComplete ==
    spc = "outer" /\ sweep.pendingNames \subseteq sweep.doneNames

ErasedAndDeleted(r) ==
    /\ ~RecordPresent(r.rec.id)
    /\ <<r.name, r.rec.labels>> \in swept

C4_ErasedWhenAgeAtLeastTtl ==
    SweepComplete =>
        \A r \in due :
            ( /\ r.rec.ttl > 0
              /\ sweep.now - r.rec.lastRegisteredAt >= r.rec.ttl
              /\ r.rec.id \notin refreshed )
                => ErasedAndDeleted(r)

(***************************************************************************)
(* C4, amended.  The same with now - lastRegisteredAt > ttl: a record      *)
(* whose age exceeds its ttl when the sweep starts, and that no worker     *)
(* writes during the sweep, is erased and its series Deleted by the time   *)
(* the sweep has finished its loops.                                       *)
(***************************************************************************)
C4_ErasedWhenAgeExceedsTtl ==
    SweepComplete =>
        \A r \in due :
            ( /\ r.rec.ttl > 0
              /\ sweep.now - r.rec.lastRegisteredAt > r.rec.ttl
              /\ r.rec.id \notin refreshed )
                => ErasedAndDeleted(r)

\* A sweep has finished that found such a record when it started.
C4_Witness ==
    /\ SweepComplete
    /\ \E r \in due :
          /\ r.rec.ttl > 0
          /\ r.rec.lastRegisteredAt >= 0
          /\ sweep.now - r.rec.lastRegisteredAt > r.rec.ttl
          /\ r.rec.id \notin refreshed

(***************************************************************************)
(* C5.  Whenever a record leaves the table or a child leaves a vector, it  *)
(* is the sweeper's doing, and the record (for a child: a record of the    *)
(* child's own name and labels) has, as that step is taken, ttl > 0 and    *)
(* lastRegisteredAt + ttl < now, now being the clock reading of the sweep. *)
(***************************************************************************)
ExpiredAt(rec, now) == rec.ttl > 0 /\ rec.lastRegisteredAt + rec.ttl < now

C5_SweeperErasesOnlyExpired ==
    [][ /\ \A r \in TableRecords :
              (~RecordPresent(r.rec.id))'
                  => (spc = "deleteRecord" /\ ExpiredAt(r.rec, sweep.now))
        /\ \A name \in AllNames, labels \in AllLabels :
              (HasChild(name, labels) /\ (~HasChild(name, labels))')
                  => /\ spc = "deleteSeries"
                     /\ \E r \in TableRecords :
                           /\ r.name = name
                           /\ r.rec.labels = labels
                           /\ ExpiredAt(r.rec, sweep.now)
      ]_vars

(***************************************************************************)
(* C6.  An observation whose Add and record refresh both happen while the  *)
(* sweeper is evicting its series (expired judged, record not yet erased)  *)
(* is not lost: once the sweep and the handleEvent call are over, the      *)
(* series is in the registry with the value, and has a record.             *)
(***************************************************************************)
C6_ObservationSurvivesSweep ==
    (spc = "idle" /\ \A w \in Workers : pc[w] \in {"idle", "ret"}) =>
        \A k \in raced :
            /\ HasChild(k[1], k[2])
            /\ ExportedCounter(k[1], k[2]) >= 1
            /\ HasRecord(k[1], k[2])

(***************************************************************************)
(* C7.  When handleEvent returns from an event it applied, the table holds *)
(* a record for the event's name and labels whose lastRegisteredAt is the  *)
(* clock value the call read.                                              *)
(***************************************************************************)
HasFreshRecord(w) ==
    /\ loc[w].metricName \in DOMAIN labelValues
    /\ \E h \in DOMAIN maps[labelValues[loc[w].metricName]] :
          LET rec == maps[labelValues[loc[w].metricName]][h]
          IN  /\ rec.labels = loc[w].labels
              /\ rec.lastRegisteredAt = loc[w].now

C7_RecordFreshOnReturn ==
    [][ \A w \in Workers :
            (pc[w] = "refreshTtl" /\ pc'[w] = "ret") => HasFreshRecord(w)'
      ]_vars

(***************************************************************************)
(* C8.  Handling a CounterEvent with a negative value is one step that     *)
(* adds one to eventStats{illegal_negative_counter} and changes neither    *)
(* the containers, nor the library's registrations (nor calls Register),   *)
(* nor the label-values table.                                             *)
(***************************************************************************)
C8_NegativeCounterRejected ==
    [][ \A w \in Workers :
            ( /\ pc[w] = "idle"
              /\ pc'[w] # "idle"
              /\ loc'[w].ev.kind = "counter"
              /\ loc'[w].ev.value < 0 )
            => /\ pc'[w] = "ret"
               /\ CountOf(eventStats', "illegal_negative_counter")
                    = CountOf(eventStats, "illegal_negative_counter") + 1
               /\ \A k \in DOMAIN eventStats : eventStats'[k] >= eventStats[k]
               /\ \A k \in DOMAIN eventStats' \ {"illegal_negative_counter"} :
                     k \in DOMAIN eventStats /\ eventStats'[k] = eventStats[k]
               /\ UNCHANGED <<registered, Elements, labelValues, maps,
                              registerCalls, conflictingEventStats>>
      ]_vars

\* A handleEvent call has returned from a CounterEvent with a negative value.
C8_Witness ==
    \E w \in Workers :
        /\ pc[w] = "ret"
        /\ loc[w].ev.kind = "counter"
        /\ loc[w].ev.value < 0
        /\ CountOf(eventStats, "illegal_negative_counter") >= 1

(***************************************************************************)
(* C10.  The label names a metric name was registered with never change,   *)
(* and an event for that name with other label names is discarded: Get     *)
(* fails, conflictingEventStats{kind} grows by one, and the call changes   *)
(* no container, no registration, no record and no eventStats.             *)
(***************************************************************************)
LabelNamesDiffer(w) ==
    /\ loc[w].metricName \in DOMAIN registered
    /\ labelNames(loc[w].labels) # registered[loc[w].metricName].labelNames

\* The positions of handleEvent after a successful Get, and inside Get after
\* a successful Register.
GetSucceeded(w) ==
    \/ pc[w] \in {"insert", "apply", "save", "saveNewMap", "hashReset",
                  "hashName", "hashLabels", "hashSum", "saveRecord",
                  "refreshTime", "refreshTtl"}
    \/ pc[w] = "ret" /\ loc[w].outcome = "ok"

C10_LabelNamesFixed ==
    /\ [](\A f \in Families : \A n \in DOMAIN Elements[f] :
             /\ n \in DOMAIN registered
             /\ Elements[f][n].labelNames = registered[n].labelNames)
    /\ [](\A w \in Workers : GetSucceeded(w) => ~LabelNamesDiffer(w))
    /\ [][ /\ \A n \in DOMAIN registered :
                 n \in DOMAIN registered' /\ registered'[n] = registered[n]
           /\ \A w \in Workers :
                 (LabelNamesDiffer(w) /\ pc'[w] # pc[w])
                 => /\ UNCHANGED <<registered, Elements, labelValues, maps,
                                   eventStats>>
                    /\ \/ /\ pc[w] = "get"
                          /\ pc'[w] \in {"register", "getMetric"}
                          /\ UNCHANGED conflictingEventStats
                       \/ /\ pc[w] \in {"register", "getMetric"}
                          /\ pc'[w] = "ret"
                          /\ loc'[w].outcome = "conflict"
                          /\ CountOf(conflictingEventStats', loc[w].ev.kind)
                               = CountOf(conflictingEventStats, loc[w].ev.kind) + 1
                       \/ pc[w] = "ret"
         ]_vars

\* An event of the family the name is registered in, with other label names,
\* has been discarded as a conflict.
C10_Witness ==
    \E w \in Workers :
        /\ pc[w] = "ret"
        /\ loc[w].outcome = "conflict"
        /\ LabelNamesDiffer(w)
        /\ registered[loc[w].metricName].family = loc[w].family
        /\ CountOf(conflictingEventStats, loc[w].ev.kind) >= 1

(***************************************************************************)
(* C9.  lineToEvents does not panic, whatever the line, and every sample   *)
(* that adds no event to the result has incremented exactly one error      *)
(* counter (a reason of sampleErrors, or tagErrors) by exactly one.        *)
(***************************************************************************)
C9_NoPanicOneErrorPerRejectedSample ==
    /\ ppc # "panic"
    /\ \A i \in 1..Len(sampleLog) :
          sampleLog[i].events = 0 => sampleLog[i].errors = 1

(***************************************************************************)
(* C11.  No metric name is ever in the tables of two containers, and an    *)
(* event for a name that is registered through another family is           *)
(* discarded: its Get misses, its Register fails, conflictingEventStats of *)
(* its kind grows by one, and no container, registration, record or        *)
(* eventStats changes.                                                     *)
(***************************************************************************)
FamilyDiffers(w) ==
    /\ loc[w].metricName \in DOMAIN registered
    /\ registered[loc[w].metricName].family # loc[w].family

C11_OneFamilyPerName ==
    /\ [](\A f \in Families, g \in Families :
             f # g => DOMAIN Elements[f] \cap DOMAIN Elements[g] = {})
    /\ [](\A w \in Workers : GetSucceeded(w) => ~FamilyDiffers(w))
    /\ [][ \A w \in Workers :
              (FamilyDiffers(w) /\ pc'[w] # pc[w])
              => /\ UNCHANGED <<registered, Elements, labelValues, maps,
                                eventStats>>
                 /\ \/ /\ pc[w] = "get"
                       /\ pc'[w] = "register"
                       /\ UNCHANGED conflictingEventStats
                    \/ /\ pc[w] = "register"
                       /\ pc'[w] = "ret"
                       /\ loc'[w].outcome = "conflict"
                       /\ CountOf(conflictingEventStats', loc[w].ev.kind)
                            = CountOf(conflictingEventStats, loc[w].ev.kind) + 1
                    \/ pc[w] = "ret"
         ]_vars

\* A timer routed to the histogram family has been discarded because its
\* name is a summary, whose series is there.
C11_Witness ==
    \E w \in Workers :
        /\ pc[w] = "ret"
        /\ loc[w].outcome = "conflict"
        /\ loc[w].family = "histogram"
        /\ loc[w].metricName \in DOMAIN registered
        /\ registered[loc[w].metricName].family = "summary"
        /\ HasChild(loc[w].metricName, loc[w].labels)
        /\ CountOf(conflictingEventStats, "timer") >= 1


(***************************************************************************)
(* C12: under any interleaving of the event workers, the fingerprint that  *)
(* hashNameAndLabels returns is the hash of the caller's own metric name   *)
(* and label set and of nothing else (the uses of the shared hasher and    *)
(* buffers never interleave), and every record of the label-values table   *)
(* is stored under the fingerprint of its own name and labels.             *)
(***************************************************************************)
C12_FingerprintOfOwnNameAndLabels ==
    /\ \A w \in Workers :
          pc[w] = "saveRecord"
          => loc[w].hash = HashOf(loc[w].metricName, loc[w].labels)
    /\ \A name \in DOMAIN labelValues :
          \A h \in DOMAIN maps[labelValues[name]] :
             h = HashOf(name, maps[labelValues[name]][h].labels)

(***************************************************************************)
(* The shared memory each thread's next step reads or writes, and the lock *)
(* the code holds at that access: a container's Mutex (named by its        *)
(* family), globalMutex ("global"), or none.                               *)
(***************************************************************************)
Threads == Workers \cup {"sweeper"}

TableOf(f) == [kind |-> "Elements", family |-> f, id |-> 0]
LabelValuesTable == [kind |-> "labelValues", family |-> "", id |-> 0]
InnerMap(i) == [kind |-> "map", family |-> "", id |-> i]
RecordOf(id) == [kind |-> "record", family |-> "", id |-> id]

Access(obj, write, lock) == [obj |-> obj, write |-> write, lock |-> lock]

\* Get, lines 100-102 and 112-114; saveLabelValues, lines 548-571.
WorkerAccesses(w) ==
    CASE pc[w] = "get" ->
            {Access(TableOf(loc[w].family), FALSE, loc[w].family)}
      [] pc[w] = "insert" ->
            {Access(TableOf(loc[w].family), TRUE, loc[w].family)}
      [] pc[w] = "save" ->
            {Access(LabelValuesTable, FALSE, "global")}
      [] pc[w] = "saveNewMap" ->
            {Access(LabelValuesTable, TRUE, "global")}
      [] pc[w] = "saveRecord" ->
            {Access(InnerMap(loc[w].metric), FALSE, "global")}
            \cup (IF loc[w].hash \in DOMAIN maps[loc[w].metric]
                  THEN {}
                  ELSE {Access(LabelValuesTable, FALSE, "global"),
                        Access(InnerMap(labelValues[loc[w].metricName]),
                               TRUE, "global")})
      [] pc[w] \in {"refreshTime", "refreshTtl"} ->
            {Access(RecordOf(loc[w].rec), TRUE, "none")}
      [] OTHER -> {}

\* removeStaleMetrics, lines 530-540, and the first line of each Delete
\* (121, 167, 225, 278), which reads c.Elements before c.Mutex.Lock().
SweeperAccesses ==
    CASE spc = "outer" ->
            {Access(LabelValuesTable, FALSE, "none")}
      [] spc = "inner" ->
            {Access(LabelValuesTable, FALSE, "none"),
             Access(InnerMap(sweep.map), FALSE, "none")}
            \cup {Access(RecordOf(maps[sweep.map][h].id), FALSE, "none") :
                    h \in DOMAIN maps[sweep.map]}
      [] spc = "deleteSeries" ->
            {Access(TableOf(f), FALSE, "none") : f \in Families}
      [] spc = "deleteRecord" ->
            {Access(LabelValuesTable, FALSE, "none"),
             Access(InnerMap(labelValues[sweep.name]), TRUE, "none")}
      [] OTHER -> {}

Accesses(t) == IF t = "sweeper" THEN SweeperAccesses ELSE WorkerAccesses(t)

\* Two accesses to one object, one of them a write, with no common lock.
Race(a, b) ==
    /\ a.obj = b.obj
    /\ a.write \/ b.write
    /\ ~(a.lock # "none" /\ a.lock = b.lock)

RaceOn(kinds) ==
    \E t \in Threads, u \in Threads :
        /\ t # u
        /\ \E a \in Accesses(t), b \in Accesses(u) :
              a.obj.kind \in kinds /\ Race(a, b)

(***************************************************************************)
(* C13: the family tables are accessed under their container's lock only,  *)
(* so that in no state two threads are about to access one family's        *)
(* name -> vector table, one of them writing, without holding a common     *)
(* lock (Get in a worker against Delete in the sweeper).                   *)
(***************************************************************************)
C13_NoFamilyTableRace == ~RaceOn({"Elements"})

(***************************************************************************)
(* C14: the label-values table, its per-name maps and the fields of its    *)
(* records are accessed under globalMutex only, so that in no state        *)
(* saveLabelValues in a worker and removeStaleMetrics in the sweeper are   *)
(* about to access one of them, one of them writing, without both holding  *)
(* globalMutex.                                                            *)
(***************************************************************************)
C14_NoLabelValuesRace == ~RaceOn({"labelValues", "map", "record"})

(***************************************************************************)
(* Observations of timers.                                                 *)
(***************************************************************************)
RECURSIVE SumOver(_, _)
SumOver(f, keys) ==
    IF keys = {} THEN 0
    ELSE LET k == CHOOSE x \in keys : TRUE
         IN  f[k] + SumOver(f, keys \ {k})

\* The number of Observe calls the children of a family have received.
ObserveCount(family) ==
    LET ofName == [n \in DOMAIN Elements[family] |->
                     SumOver([l \in DOMAIN Elements[family][n].children |->
                                Elements[family][n].children[l].count],
                             DOMAIN Elements[family][n].children)]
    IN  SumOver(ofName, DOMAIN Elements[family])

\* The worker is in saveLabelValues: between Observe and eventStats...Inc().
InSave(w) ==
    pc[w] \in {"save", "saveNewMap", "hashReset", "hashName", "hashLabels",
               "hashSum", "saveRecord", "refreshTime", "refreshTtl"}

(***************************************************************************)
(* C19: a TimerEvent that is not in conflict causes exactly one            *)
(* Observe(value / 1000), on the child of its name and labels in exactly   *)
(* one family: the histogram family when the mapping's timer type, or the  *)
(* mapper default when the mapping has none, is histogram, and the summary *)
(* family otherwise, also when both are unset.  No other step of the       *)
(* handling of a timer changes any child, and the observations made are as *)
(* many as the timers handled without conflict.                            *)
(***************************************************************************)
C19_TimerObservedOnceInItsFamily ==
    /\ [](ObserveCount("histogram") + ObserveCount("summary")
            = CountOf(eventStats, "timer")
              + Cardinality({w \in Workers :
                               loc[w].ev.kind = "timer" /\ InSave(w)}))
    /\ [][ \A w \in Workers :
             (pc'[w] # pc[w] /\ loc[w].ev.kind = "timer")
             => IF pc[w] = "apply"
                THEN LET res == loc[w].res
                         own == IF res.isNil THEN "" ELSE res.mapping.TimerType
                         t == IF own = "" THEN res.defaults.TimerType ELSE own
                         wanted == IF t = "histogram" THEN "histogram"
                                                      ELSE "summary"
                         n == loc[w].metricName
                         l == loc[w].labels
                     IN  /\ n \in DOMAIN Elements[wanted]
                         /\ l \in DOMAIN Elements[wanted][n].children
                         /\ LET old == Elements[wanted][n].children[l]
                                new == Elements'[wanted][n].children[l]
                            IN  /\ new.count = old.count + 1
                                \* new.sum = old.sum + value / 1000
                                /\ new.sum.num * old.sum.den * 1000
                                     = (old.sum.num * 1000
                                          + loc[w].ev.value * old.sum.den)
                                       * new.sum.den
                                /\ new.val = old.val /\ new.id = old.id
                                /\ [Elements' EXCEPT
                                       ![wanted][n].children[l] = old]
                                     = Elements
                ELSE \A f \in Families : \A n \in DOMAIN Elements[f] :
                        \A l \in DOMAIN Elements[f][n].children :
                           /\ n \in DOMAIN Elements'[f]
                           /\ l \in DOMAIN Elements'[f][n].children
                           /\ Elements'[f][n].children[l]
                                = Elements[f][n].children[l] ]_vars

\* Two timers of one name have been observed on the histogram family, one
\* routed by the defaults alone (250 ms) and one by a mapping without a timer
\* type (750 ms); the summary family has none.
C19_Witness ==
    /\ \E w \in Workers :
          /\ pc[w] = "save"
          /\ loc[w].ev.kind = "timer"
          /\ loc[w].res.isNil
          /\ loc[w].res.defaults.TimerType = "histogram"
    /\ N_foo \in DOMAIN Elements["histogram"]
    /\ EmptyLabels \in DOMAIN Elements["histogram"][N_foo].children
    /\ Elements["histogram"][N_foo].children[EmptyLabels].count = 2
    /\ Elements["histogram"][N_foo].children[EmptyLabels].sum = Rat(1, 1)
    /\ ObserveCount("summary") = 0

(***************************************************************************)
(* The value a sequence of GaugeEvents stands for.                         *)
(***************************************************************************)
\* The position of the last absolute event of the sequence, 0 when none.
LastAbsolute(log) ==
    IF \E i \in DOMAIN log : ~log[i].relative
    THEN CHOOSE i \in DOMAIN log :
            /\ ~log[i].relative
            /\ \A j \in DOMAIN log : j > i => log[j].relative
    ELSE 0

GaugeValue(log) ==
    LET i == LastAbsolute(log)
        after == (i + 1) .. Len(log)
    IN  (IF i = 0 THEN 0 ELSE log[i].value)
        + SumOver([j \in after |-> log[j].value], after)

(***************************************************************************)
(* C18: when the GaugeEvents of a series have been applied one after the   *)
(* other, the exported value of the series is the value of the last        *)
(* absolute event plus the sum of the relative deltas after it, counted    *)
(* from 0 when there was no absolute event.                                *)
(***************************************************************************)
C18_GaugeIsLastSetPlusDeltas ==
    (\A w \in Workers : pc[w] = "idle")
    => \A key \in DOMAIN gaugeLog :
          /\ key[1] \in DOMAIN Elements["gauge"]
          /\ key[2] \in DOMAIN Elements["gauge"][key[1]].children
          /\ Elements["gauge"][key[1]].children[key[2]].val
               = GaugeValue(gaugeLog[key])

\* Set(5), Add(3), Add(-1) on one series: the gauge shows 7.
C18_Witness ==
    /\ \A w \in Workers : pc[w] = "idle"
    /\ <<N_foo, L_p>> \in DOMAIN gaugeLog
    /\ Len(gaugeLog[<<N_foo, L_p>>]) = 3
    /\ ~gaugeLog[<<N_foo, L_p>>][1].relative
    /\ gaugeLog[<<N_foo, L_p>>][2].relative
    /\ gaugeLog[<<N_foo, L_p>>][3].relative
    /\ gaugeLog[<<N_foo, L_p>>][3].value < 0
    /\ Elements["gauge"][N_foo].children[L_p].val = 7

(***************************************************************************)
(* C20: the name sanitizer returns, for every string it is called with,    *)
(* the empty string included, and what it returns has only characters of   *)
(* [A-Za-z0-9_] and does not start with a digit: lineToEvents never fails  *)
(* in it, and every label name of every event it returns is such a string. *)
(***************************************************************************)
ValidIdentifier(s) ==
    /\ \A i \in 1..Len(s) : s[i] \in LegalChars
    /\ Len(s) > 0 => s[1] \notin Digits

C20_SanitizerTotalAndValid ==
    /\ ppc # "panic"
    /\ \A i \in 1..Len(events) :
          \A k \in DOMAIN events[i].labels : ValidIdentifier(k)

(***************************************************************************)
(* C17: a counter sample x|c|@r with r in (0, 1] yields one CounterEvent   *)
(* of value x / r, a timer sample x|ms|@r yields exactly floor(1 / r)      *)
(* TimerEvents, each of value x, and a sampling factor of 0 counts as 1.   *)
(* r is the sampling factor as the sample states it.                       *)
(***************************************************************************)
\* What the claim says of a logged sample of value x, type statType and
\* sampling factor r, 0 <= r <= 1.
Scaled(entry, statType, x, r) ==
    /\ statType = <<"c">>
         => /\ entry.events = 1
            /\ entry.values = {RatDiv(x, r)}
    /\ statType = <<"m", "s">>
         => /\ entry.events = r.den \div r.num
            /\ entry.values = {x}

SampledAt(entry, components, value, factor) ==
    (/\ value.ok
     /\ factor.ok
     /\ factor.value.num >= 0
     /\ factor.value.num <= factor.value.den)
    => Scaled(entry, components[2], value.value,
              IF factor.value.num = 0 THEN One ELSE factor.value)

SampledAsStated(entry, components) ==
    (/\ Len(components) = 3
     /\ Len(components[3]) > 0
     /\ components[3][1] = "@")
    => SampledAt(entry, components, ParseFloat(components[1]),
                 ParseFloat(Tail(components[3])))

C17_SamplingScalesCounterAndTimer ==
    \A i \in 1..Len(sampleLog) :
        SampledAsStated(sampleLog[i], Split(sampleLog[i].sample, "|"))

(***************************************************************************)
(* Shutdown: the events channel is closed.                                 *)
(***************************************************************************)
AllReturned == \A w \in Workers : lpc[w] = "returned"

RECURSIVE EventsIn(_)
EventsIn(batches) ==
    IF batches = <<>> THEN 0
    ELSE Len(Head(batches)) + EventsIn(Tail(batches))

\* Every batch sent was received once, every event of it went through
\* handleEvent, and no handleEvent call is still running.
Drained ==
    /\ queue = <<>>
    /\ \A id \in 1..Len(produced) : CountOf(received, id) = 1
    /\ \A w \in Workers : batch[w] = <<>> /\ pc[w] = "idle"
    /\ started = EventsIn(produced)

\* C15: after the events channel is closed, every batch that was queued in
\* it is handled by exactly one worker (no batch is ever received twice, and
\* when the workers are gone every batch has been received once and all its
\* events handled), and then every event worker, Listen's own Listener
\* included, terminates.
C15_ClosedChannelDrainsThenWorkersExit ==
    /\ [](\A id \in DOMAIN received : received[id] <= 1)
    /\ [](AllReturned => closed /\ Drained)
    /\ [](\A w \in Workers : lpc[w] = "returned" => closed /\ queue = <<>>)
    /\ (closed ~> AllReturned)

\* Two batches were in the channel when it was closed, and all workers have
\* returned.
C15_Witness ==
    /\ AllReturned
    /\ atClose >= 2
    /\ started >= 2

\* C16: removeStaleMetricsLoop terminates once the channel is closed and a
\* Listener has stopped the ticker.
C16_SweeperTerminatesAfterStop ==
    (closed /\ tickerStopped) ~> (spc = "returned")

(***************************************************************************)
(* The name sanitizer.                                                     *)
(***************************************************************************)
\* C21: the name sanitizer is idempotent: for every non-empty string s,
\* escapeMetricName(escapeMetricName(s)) = escapeMetricName(s).
C21_SanitizerIdempotent ==
    Len(escOut) = 2 => escOut[2] = escOut[1]

\* The sanitizer was applied twice to a string that it changes, by the
\* prefix and by a replacement.
C21_Witness ==
    /\ Len(escOut) = 2
    /\ escIn[1] = "9"
    /\ \E i \in 1..Len(escIn) : escIn[i] \notin LegalChars
    /\ escOut[1] # escIn

(***************************************************************************)
(* lineToEvents: lines and samples.                                        *)
(***************************************************************************)
\* The line is empty, has no ':', has nothing before its first ':', or is
\* not valid UTF-8.
MalformedLine(l) ==
    \/ l = <<>>
    \/ Index(l, ":") = 0
    \/ Index(l, ":") = 1
    \/ ~ValidString(l)

\* C22: lineToEvents returns no events and increments
\* sample_errors{malformed_line} by exactly one for every line that is
\* empty, contains no ':', has an empty name or is not valid UTF-8.
C22_MalformedLineCountedOnce ==
    (ppc = "done" /\ MalformedLine(line)) =>
        /\ events = <<>>
        /\ CountOf(sampleErrors, "malformed_line") = 1

\* The tags of a tag section, each split into its key and its value.
TagPairs(component) ==
    LET tags == Split(component, ",")
    IN  [i \in 1..Len(tags) |-> SplitN(TrimPrefix(tags[i], "#"), ":", 2)]

WellFormedTags(component) ==
    \A i \in 1..Len(TagPairs(component)) :
        LET kv == TagPairs(component)[i]
        IN  Len(kv) = 2 /\ kv[1] # <<>> /\ kv[2] # <<>>

\* The labels the tags stand for: sanitized keys, values unchanged.
LabelsOfTags(component) ==
    LET kvs == TagPairs(component)
    IN  [k \in {escapeMetricName(kvs[i][1]) : i \in 1..Len(kvs)} |->
            kvs[CHOOSE i \in 1..Len(kvs) : escapeMetricName(kvs[i][1]) = k][2]]

\* The line is name:value|type|#tags, all its tags well-formed.
TaggedSample(components) ==
    /\ Len(components) = 3
    /\ components[3] # <<>>
    /\ components[3][1] = "#"
    /\ WellFormedTags(components[3])

TagsAsStated(components) ==
    /\ tagsReceived = Len(TagPairs(components[3]))
    /\ \A j \in 1..Len(events) : events[j].labels = LabelsOfTags(components[3])

\* C23: a sample whose tag section holds n well-formed tags yields an event
\* carrying exactly those n labels (sanitized keys, values unchanged) and
\* increases tags_received by n.
C23_TagsBecomeLabelsAndAreCounted ==
    (ppc = "done" /\ ~MalformedLine(line) /\ events # <<>>) =>
        (TaggedSample(Split(SplitN(line, ":", 2)[2], "|")) =>
             TagsAsStated(Split(SplitN(line, ":", 2)[2], "|")))

(***************************************************************************)
(* handleEvent and the mapper's answer.                                    *)
(***************************************************************************)
\* Worker w takes a step of a handleEvent call whose mapping says drop.
DroppedStep(w) ==
    /\ pc'[w] # pc[w]
    /\ \/ pc[w] = "idle" /\ EffectiveMapping(loc'[w].res).Action = "drop"
       \/ pc[w] # "idle" /\ EffectiveMapping(loc[w].res).Action = "drop"

\* C24: handling an event whose mapping action is drop changes no registry,
\* no registration, no LabelSetRecord and no self-counter (events_unmapped,
\* event_stats, conflicting_event_stats).
C24_DropChangesNothing ==
    [][\A w \in Workers :
          DroppedStep(w) =>
              UNCHANGED <<registered, registerCalls, Elements, labelValues,
                          maps, eventsUnmapped, eventStats,
                          conflictingEventStats>>]_vars

\* An event with action drop has been handled after one that was recorded.
C24_Witness ==
    /\ pc["w1"] = "ret"
    /\ loc["w1"].outcome = "drop"
    /\ loc["w1"].ev.value < 0
    /\ Elements["counter"] # EmptyMap
    /\ eventsUnmapped = 1

\* The name and the labels an event is to be recorded under.
StatedName(ev, res) ==
    IF res.present THEN escapeMetricName(res.mapping.Name)
                   ELSE escapeMetricName(ev.metricName)

StatedLabels(ev, res) ==
    IF res.present
    THEN [k \in DOMAIN ev.labels \cup DOMAIN res.labels |->
             IF k \in DOMAIN res.labels THEN res.labels[k] ELSE ev.labels[k]]
    ELSE ev.labels

Recorded(family, name, labels) ==
    /\ name \in DOMAIN Elements[family]
    /\ labels \in DOMAIN Elements[family][name].children
    /\ HasRecord(name, labels)

\* C29: on a match the event is recorded under the sanitized mapping name
\* with the event's labels united with the mapping's (the mapping's value
\* winning) and events_unmapped is unchanged; otherwise under the sanitized
\* event name with the event's own labels, and events_unmapped grows by one.
C29_RecordedUnderMappedNameAndLabels ==
    /\ [](\A w \in Workers :
            (pc[w] = "ret" /\ loc[w].outcome = "ok") =>
                Recorded(loc[w].family, StatedName(loc[w].ev, loc[w].res),
                         StatedLabels(loc[w].ev, loc[w].res)))
    /\ [][\A w \in Workers :
            (pc[w] = "idle" /\ pc'[w] # "idle"
                /\ EffectiveMapping(loc'[w].res).Action # "drop") =>
                eventsUnmapped' = eventsUnmapped
                                    + (IF loc'[w].res.present THEN 0 ELSE 1)]_vars

\* A matched event has been recorded: renamed by the mapping and the
\* sanitizer, with a label of its own overridden and one added.
C29_Witness ==
    /\ pc["w1"] = "ret"
    /\ loc["w1"].outcome = "ok"
    /\ loc["w1"].res.present
    /\ Recorded("counter", <<"_", "9", "b">>, L_qj)
    /\ eventsUnmapped = 1

(***************************************************************************)
(* Listen: the Listener goroutines side by side.                           *)
(***************************************************************************)
\* The workers that are inside handleEvent.
InHandleEvent == {w \in Workers : pc[w] # "idle"}

\* C25: Listen handles the events sent to the channel sequentially: no two
\* handleEvent calls ever execute at the same time (and so the batches are
\* handled one after the other, in the order they were sent).
C25_OneHandleEventAtATime ==
    Cardinality(InHandleEvent) <= 1

(***************************************************************************)
(* The UDP readers and their packet handlers.                              *)
(***************************************************************************)
\* The goroutines reader r has started that have not finished.
RunningAsync(r) == {h \in async : h.reader = r}

\* The packet is with a handler that has not called handlePacket yet.
Pending(id) ==
    \/ \E r \in UDPReaders : upc[r] = "handle" /\ upkt[r] = id
    \/ \E h \in async : h.id = id /\ h.at = "handle"

\* C26: for each UDP reader the asynchronous packet handlers running at once
\* never exceed handlers/threads (integer division); when that many are
\* running the next packet is handled by the reader itself, otherwise by a
\* new goroutine; and every packet read is handled exactly once.
C26_HandlersBoundedPacketsHandledOnce ==
    /\ [](\A r \in UDPReaders :
            Cardinality(RunningAsync(r)) <= PacketHandlers \div Cardinality(UDPReaders))
    /\ [](\A id \in 1..Len(packets) :
            CountOf(handled, id) = IF Pending(id) THEN 0 ELSE 1)
    /\ [][\A r \in UDPReaders :
            (upc[r] = "read" /\ Len(packets') > Len(packets)
                /\ RunningAsync(r)' = RunningAsync(r) /\ upkt'[r] # upkt[r]) =>
                /\ upc'[r] = "handle"
                /\ Cardinality(RunningAsync(r))
                     = PacketHandlers \div Cardinality(UDPReaders)]_vars
    /\ [][\A r \in UDPReaders :
            (upc[r] = "read" /\ Len(packets') > Len(packets)
                /\ RunningAsync(r)' # RunningAsync(r)) =>
                /\ upc'[r] = "read"
                /\ Cardinality(RunningAsync(r))
                     < PacketHandlers \div Cardinality(UDPReaders)]_vars

\* A reader handles a packet itself while a goroutine of its own is still
\* running, after an earlier packet was handled.
C26_Witness ==
    /\ upc["r1"] = "handle"
    /\ Cardinality(RunningAsync("r1")) = PacketHandlers \div Cardinality(UDPReaders)
    /\ RunningAsync("r1") # {}
    /\ \E id \in DOMAIN handled : handled[id] = 1

\* The events of a packet: those of its lines, in order, and within a line
\* those of its samples, in order.
RECURSIVE Concat(_)
Concat(seqs) == IF seqs = <<>> THEN <<>> ELSE Head(seqs) \o Concat(Tail(seqs))

EventsOfSamples(name, smpls) ==
    Concat([i \in 1..Len(smpls) |-> SampleToEvents(smpls[i], name).events])

EventsOfLine(l) ==
    IF MalformedLine(l) THEN <<>>
    ELSE EventsOfSamples(SplitN(l, ":", 2)[1],
                         IF Contains(SplitN(l, ":", 2)[2], <<"|", "#">>)
                         THEN <<SplitN(l, ":", 2)[2]>>
                         ELSE Split(SplitN(l, ":", 2)[2], ":"))

EventsOfPacket(p) ==
    Concat([i \in 1..Len(Split(p, "\n")) |-> EventsOfLine(Split(p, "\n")[i])])

\* C27: each UDP packet produces exactly one Events batch on the channel
\* (possibly empty), whose events are in the order of the packet's lines and,
\* within a line, of its samples.
C27_OneBatchPerPacketInOrder ==
    \A id \in 1..Len(packets) :
        CountOf(handled, id) = 1 =>
            /\ id \in DOMAIN batchesOf
            /\ batchesOf[id] = <<EventsOfPacket(packets[id])>>

(***************************************************************************)
(* lineToEvents: a line of several samples.                                *)
(***************************************************************************)
\* The sample has fewer than 2 or more than 4 components, an empty modifier,
\* or a value that is no number.
SkippedSample(components) ==
    \/ Len(components) < 2
    \/ Len(components) > 4
    \/ \E i \in 3..Len(components) : components[i] = <<>>
    \/ ~ParseFloat(components[1]).ok

\* The samples of a well-formed line in multi-sample mode.
SamplesOfLine(l) == Split(SplitN(l, ":", 2)[2], ":")

MultiSample(l) ==
    /\ ~MalformedLine(l)
    /\ ~Contains(SplitN(l, ":", 2)[2], <<"|", "#">>)

\* C28: on a multi-sample line a sample with fewer than 2 or more than 4
\* components, with an empty modifier or with an unparseable value is
\* skipped alone: it adds no event and one error, and the line's events are
\* those of its other samples, in line order.
C28_BadSampleSkippedAlone ==
    (ppc = "done" /\ MultiSample(line)) =>
        /\ Len(sampleLog) = Len(SamplesOfLine(line))
        /\ \A i \in 1..Len(sampleLog) :
              /\ sampleLog[i].sample = SamplesOfLine(line)[i]
              /\ SkippedSample(Split(sampleLog[i].sample, "|")) =>
                    sampleLog[i].events = 0 /\ sampleLog[i].errors = 1
        /\ events = EventsOfSamples(SplitN(line, ":", 2)[1], SamplesOfLine(line))

\* A line of three samples whose second one is skipped has given the events
\* of the first and of the third.
C28_Witness ==
    /\ ppc = "done"
    /\ Len(sampleLog) = 3
    /\ sampleLog[2].events = 0
    /\ Len(events) = 2
    /\ events[1].kind = "counter"
    /\ events[2].kind = "gauge"

(***************************************************************************)
(* The mapping cache.                                                      *)
(***************************************************************************)
\* C30: after AddMatch(k, mapping, labels), and while k has not been
\* evicted, Get(k) returns found = true with Matched = true and the same
\* mapping and labels; after AddMiss(k), found = true with Matched = false.
C30_CacheRoundTrip ==
    asked.present =>
        /\ got.found
        /\ ~got.isNil
        /\ got.Matched = asked.expected.Matched
        /\ asked.expected.Matched =>
              /\ got.Mapping = asked.expected.Mapping
              /\ got.Labels = asked.expected.Labels


(***************************************************************************)
(* The self-metrics of handleEvent.                                        *)
(***************************************************************************)
\* The label values of a counter vector whose count differs in two states.
Rise(before, after) ==
    {k \in DOMAIN before \cup DOMAIN after : CountOf(after, k) # CountOf(before, k)}

\* No count has changed by anything but one, upwards.
RoseByOne(before, after) ==
    \A k \in Rise(before, after) : CountOf(after, k) = CountOf(before, k) + 1

\* With the locals l of a call, the containers els and the table's records
\* recs: the child Get returned is in its vector under the call's name and
\* labels, and the call's record is in the table with the time and the ttl
\* the call wrote.
AppliedAndRefreshed(l, els, recs) ==
    /\ l.metricName \in DOMAIN els[l.family]
    /\ l.labels \in DOMAIN els[l.family][l.metricName].children
    /\ els[l.family][l.metricName].children[l.labels].id = l.handle
    /\ \E r \in recs :
          /\ r.name = l.metricName
          /\ r.rec.id = l.rec
          /\ r.rec.labels = l.labels
          /\ r.rec.lastRegisteredAt = l.now
          /\ r.rec.ttl = l.ttl

\* C31: a handleEvent call whose mapping action is not drop increments
\* exactly one of event_stats{counter|gauge|timer},
\* event_stats{illegal_negative_counter}, event_stats{illegal} and
\* conflicting_event_stats{kind}, by exactly one, as it comes to its return,
\* and no other step of a worker changes either vector; it is
\* event_stats{kind} exactly when the value has been applied to the child of
\* the event's name and labels (Add, Set or Observe, at the step before
\* saveLabelValues) and the LabelSetRecord carries the time and ttl written.
C31_OneStatPerHandledEvent ==
    [][\A w \in Workers :
          pc'[w] # pc[w] =>
              LET es == Rise(eventStats, eventStats')
                  cs == Rise(conflictingEventStats, conflictingEventStats')
                  ev == loc'[w].ev
                  l == loc[w]
              IN  /\ IF pc'[w] = "ret"
                        /\ EffectiveMapping(loc'[w].res).Action # "drop"
                     THEN /\ Cardinality(es) + Cardinality(cs) = 1
                          /\ RoseByOne(eventStats, eventStats')
                          /\ RoseByOne(conflictingEventStats,
                                       conflictingEventStats')
                          /\ es \subseteq {ev.kind, "illegal_negative_counter",
                                           "illegal"}
                          /\ cs \subseteq {ev.kind}
                          /\ ev.kind \in es
                               <=> AppliedAndRefreshed(loc'[w], Elements',
                                                       TableRecords')
                          /\ ev.kind \in es <=> pc[w] = "refreshTtl"
                     ELSE es = {} /\ cs = {}
                  /\ IF pc[w] = "apply"
                     THEN /\ l.metricName \in DOMAIN Elements[l.family]
                          /\ l.labels \in DOMAIN
                                 Elements[l.family][l.metricName].children
                          /\ Elements' =
                               [Elements EXCEPT
                                  ![l.family][l.metricName].children[l.labels]
                                     = ApplyValue(@, l.ev)]
                     ELSE \A f \in Families : \A n \in DOMAIN Elements[f] :
                             \A k \in DOMAIN Elements[f][n].children :
                                Elements'[f][n].children[k]
                                  = Elements[f][n].children[k]]_vars

\* A counter has been recorded and a gauge of the same name has just been
\* refused: one count in each vector.
C31_Witness ==
    /\ \E w \in Workers :
          /\ pc[w] = "ret"
          /\ loc[w].ev.kind = "gauge"
          /\ loc[w].handle = 0
    /\ CountOf(eventStats, "counter") = 1
    /\ CountOf(conflictingEventStats, "gauge") = 1
    /\ ExportedCounter(N_foo, L_p) = 1


(***************************************************************************)
(* A series after its eviction.                                            *)
(***************************************************************************)
\* The sweeper has Deleted the series and erased its record, and no
\* observation has made a record for it since.
Evicted(name, labels) ==
    /\ <<name, labels>> \in evicted
    /\ ~HasRecord(name, labels)
    /\ ~BeingEvicted(name, labels)

\* C32: after the sweeper has evicted the series (name, labels), the next
\* observation for it finds the name in its container and calls Register
\* for no name; GetMetricWith makes a child that was not there, with a new
\* identity and the value zero; after Add the exported value of the counter
\* is the value of this event alone; and saveLabelValues makes a record
\* that was not there, with a new identity, under the name and labels.
C32_FreshSeriesAfterEviction ==
    [][\A w \in Workers :
          (pc'[w] # pc[w] /\ Evicted(loc[w].metricName, loc[w].labels)) =>
              LET l == loc[w]
                  f == l.family
                  n == l.metricName
              IN  /\ pc[w] = "get" =>
                        /\ pc'[w] = "getMetric"
                        /\ UNCHANGED <<registered, registerCalls>>
                  /\ pc[w] = "getMetric" =>
                        /\ pc'[w] = "apply"
                        /\ l.labels \notin DOMAIN Elements[f][n].children
                        /\ l.labels \in DOMAIN Elements'[f][n].children
                        /\ Elements'[f][n].children[l.labels]
                             = [id |-> nextId, val |-> 0, count |-> 0,
                                sum |-> Rat(0, 1)]
                        /\ loc'[w].handle = nextId
                        /\ nextId' > nextId
                  /\ (pc[w] = "apply" /\ l.ev.kind = "counter") =>
                        /\ n \in DOMAIN Elements'["counter"]
                        /\ l.labels \in DOMAIN Elements'["counter"][n].children
                        /\ Elements'["counter"][n].children[l.labels].val
                             = l.ev.value
                        /\ sent[<<n, l.labels>>] > l.ev.value
                  /\ pc[w] = "saveRecord" =>
                        /\ \A r \in TableRecords : r.rec.id # nextId
                        /\ \E r \in TableRecords' :
                              /\ r.name = n
                              /\ r.rec.labels = l.labels
                              /\ r.rec.id = nextId
                        /\ loc'[w].rec = nextId
                  /\ pc'[w] = "ret" => loc'[w].outcome = "ok"]_vars

\* The second foo{env=p}:1|c has been added after the eviction of the
\* series that held the first: the counter shows 1, the events sum to 2.
C32_Witness ==
    /\ pc["w1"] = "save"
    /\ Evicted(N_foo, L_p)
    /\ loc["w1"].metricName = N_foo
    /\ loc["w1"].labels = L_p
    /\ ExportedCounter(N_foo, L_p) = 1
    /\ CountOf(sent, <<N_foo, L_p>>) = 2
    /\ CountOf(registerCalls, <<"counter", N_foo>>) = 1

====
